---- MODULE Spec2Model ----
(***************************************************************************)
(* Plan generation pipeline of racebuddy:                                  *)
(*   backend/app/core/training_logic.py   TrainingPlanGenerator and        *)
(*                                        AIEnhancedTrainingPlanGenerator  *)
(*   backend/app/core/schemas.py          TrainingPlanRequest, WeekPlan,   *)
(*                                        TrainingSession                  *)
(*   backend/app/core/rag/agents.py       RaceBuddyAgents.chat             *)
(*   backend/app/api/v1/endpoints/training.py  generate_ai_training_plan   *)
(*                                                                         *)
(* Encodings.  A date is its proleptic Gregorian ordinal (date.toordinal). *)
(* An Optional value is a sequence of length at most one: <<>> is None and *)
(* <<x>> is x.  A Python dict is a function whose DOMAIN is its key set.   *)
(* The outcome of a call is a record with field exc: "none" when the call  *)
(* returned (field value holds what it returned), the exception otherwise. *)
(* Non-ASCII letters of the Swedish literals are folded to ASCII.          *)
(***************************************************************************)
EXTENDS Integers, Sequences, FiniteSets, TLC

VARIABLES
    pc,            \* position of each invocation of the endpoint
    request,       \* the request body, then the constructed TrainingPlanRequest
    retrieved,     \* outcomes of the two knowledge-store queries of _get_race_context
    race_context,  \* generate_plan: race_context
    ai_prompt,     \* generate_plan: ai_prompt
    response,      \* _generate_ai_training_plan: response of race_buddy_agents.chat
    ai_plan,       \* generate_plan: outcome of _generate_ai_training_plan
    outcome,       \* outcome of AIEnhancedTrainingPlanGenerator.generate_plan
    http,          \* what generate_ai_training_plan hands to its caller
    store_calls,   \* knowledge-store queries issued by the invocation
    gen_calls,     \* calls of race_buddy_agents.chat made by the invocation
    det_calls      \* calls of TrainingPlanGenerator.generate_plan made by the orchestrator

vars == <<pc, request, retrieved, race_context, ai_prompt, response, ai_plan, outcome,
          http, store_calls, gen_calls, det_calls>>

----------------------------------------------------------------------------
(* Call outcomes and Optional values *)

None == <<>>

Some(x) == <<x>>

Return(v) == [exc |-> "none", value |-> v]

Raise(e) == [exc |-> e]

Returned(o) == o.exc = "none"

----------------------------------------------------------------------------
(* Dates *)

\* date.max.toordinal(): date + timedelta raises OverflowError beyond it
DateMax == 3652059

\* date.min.toordinal()
DateMin == 1

\* date + timedelta(days): the new date, or OverflowError
DateAdd(d, days) ==
    IF d + days > DateMax \/ d + days < DateMin
    THEN Raise("OverflowError")
    ELSE Return(d + days)

----------------------------------------------------------------------------
(* schemas.py *)

FitnessLevelEnum == {"beginner", "intermediate", "advanced"}

MinTrainingDays == 3

MaxTrainingDays == 7

DefaultTrainingDays == 4

\* Field(..., ge=100, le=250) of height_cm
MinHeightCm == 100

MaxHeightCm == 250

\* Field(..., ge=30, le=200) of weight_kg
MinWeightKg == 30

MaxWeightKg == 200

\* Field(..., ge=12, le=100) of age
MinAge == 12

MaxAge == 100

\* a target_time string is the sequence of its parts v.split(':'), each part
\* being Some(n) when int(part) is n and None when int(part) raises ValueError
HMS(h, m, s) == <<Some(h), Some(m), Some(s)>>

\* validate_target_time: three parts, all integers, each within its range
validate_target_time(v) ==
    /\ Len(v) = 3
    /\ \A k \in 1..3 : v[k] # None
    /\ 0 <= v[1][1] /\ v[1][1] <= 23
    /\ 0 <= v[2][1] /\ v[2][1] <= 59
    /\ 0 <= v[3][1] /\ v[3][1] <= 59

\* validate_race_date accepting a race on the start date ("<" for "<=")
validate_race_date_AllowEqual(v, start_date) == ~(v < start_date)

\* validate_race_date
validate_race_date(v, start_date) == ~(v <= start_date)

\* Field(default=4, ge=3, le=7) on Optional[int]: None passes, an int is range-checked
validate_training_days(body) ==
    \/ "training_days_per_week" \notin DOMAIN body
    \/ body["training_days_per_week"] = None
    \/ /\ body["training_days_per_week"][1] >= MinTrainingDays
       /\ body["training_days_per_week"][1] <= MaxTrainingDays

\* the ge / le constraints of height_cm, weight_kg and age
validate_numeric_fields(body) ==
    /\ body["height_cm"] >= MinHeightCm /\ body["height_cm"] <= MaxHeightCm
    /\ body["weight_kg"] >= MinWeightKg /\ body["weight_kg"] <= MaxWeightKg
    /\ body["age"] >= MinAge /\ body["age"] <= MaxAge

\* TrainingPlanRequest(**body): the validated request, or a ValidationError
TrainingPlanRequest(body) ==
    IF /\ validate_numeric_fields(body)
       /\ body["fitness_level"] \in FitnessLevelEnum
       /\ validate_target_time(body["target_time"])
       /\ validate_race_date(body["race_date"], body["start_date"])
       /\ validate_training_days(body)
    THEN Return([height_cm |-> body["height_cm"],
                 weight_kg |-> body["weight_kg"],
                 age |-> body["age"],
                 fitness_level |-> body["fitness_level"],
                 target_time |-> body["target_time"],
                 start_date |-> body["start_date"],
                 race_date |-> body["race_date"],
                 training_days_per_week |->
                     IF "training_days_per_week" \in DOMAIN body
                     THEN body["training_days_per_week"]
                     ELSE Some(DefaultTrainingDays)])
    ELSE Raise("ValidationError")

\* TrainingSession(...): distance_km is Optional[int] with ge=0
TrainingSession(date, type, distance_km, pace, intensity) ==
    IF distance_km # None /\ distance_km[1] < 0
    THEN Raise("ValidationError")
    ELSE Return([date |-> date, type |-> type, distance_km |-> distance_km,
                 pace |-> pace, intensity |-> intensity])

\* WeekPlan(...): week_number has ge=1, total_distance_km has ge=0
WeekPlan(week_number, start_date, end_date, focus, total_distance_km, sessions) ==
    IF week_number < 1 \/ total_distance_km < 0
    THEN Raise("ValidationError")
    ELSE Return([week_number |-> week_number, start_date |-> start_date,
                 end_date |-> end_date, focus |-> focus,
                 total_distance_km |-> total_distance_km,
                 sessions |-> sessions])

----------------------------------------------------------------------------
(* TrainingPlanGenerator *)

\* self.session_types: name and intensity of each session type
session_types ==
    [easy_run |-> [name |-> "Lugnt loppass", intensity |-> "low"],
     tempo_run |-> [name |-> "Tempopass", intensity |-> "medium"],
     interval_training |-> [name |-> "Intervalltraning", intensity |-> "high"],
     long_run |-> [name |-> "Langpass", intensity |-> "low-medium"],
     hill_training |-> [name |-> "Backtraning", intensity |-> "medium-high"],
     recovery_run |-> [name |-> "Aterhamtningspass", intensity |-> "very_low"]]

Max(a, b) == IF a >= b THEN a ELSE b

Min(a, b) == IF a <= b THEN a ELSE b

\* _calculate_training_weeks without the lower clamp: min(20, delta.days // 7)
calculate_training_weeks_NoLowerClamp(start_date, race_date) ==
    Min(20, (race_date - start_date) \div 7)

\* _calculate_training_weeks: max(4, min(20, delta.days // 7))
calculate_training_weeks(start_date, race_date) ==
    Max(4, Min(20, (race_date - start_date) \div 7))

\* base_structures with one session missing from the beginner 5-day list
base_structures_ShortList ==
    [beginner |->
        (3 :> <<"easy_run", "easy_run", "long_run">> @@
         4 :> <<"easy_run", "tempo_run", "easy_run", "long_run">> @@
         5 :> <<"easy_run", "tempo_run", "easy_run", "long_run">> @@
         6 :> <<"easy_run", "tempo_run", "easy_run", "hill_training",
                "recovery_run", "long_run">> @@
         7 :> <<"easy_run", "tempo_run", "easy_run", "interval_training",
                "easy_run", "recovery_run", "long_run">>),
     intermediate |->
        (3 :> <<"tempo_run", "interval_training", "long_run">> @@
         4 :> <<"easy_run", "tempo_run", "interval_training", "long_run">> @@
         5 :> <<"easy_run", "tempo_run", "interval_training", "hill_training",
                "long_run">> @@
         6 :> <<"easy_run", "tempo_run", "interval_training", "hill_training",
                "recovery_run", "long_run">> @@
         7 :> <<"easy_run", "tempo_run", "easy_run", "interval_training",
                "hill_training", "recovery_run", "long_run">>),
     advanced |->
        (4 :> <<"tempo_run", "interval_training", "hill_training", "long_run">> @@
         5 :> <<"easy_run", "tempo_run", "interval_training", "hill_training",
                "long_run">> @@
         6 :> <<"easy_run", "tempo_run", "interval_training", "hill_training",
                "tempo_run", "long_run">> @@
         7 :> <<"easy_run", "tempo_run", "easy_run", "interval_training",
                "hill_training", "tempo_run", "long_run">>)]

\* _get_weekly_structure: the base_structures table
base_structures ==
    [beginner |->
        (3 :> <<"easy_run", "easy_run", "long_run">> @@
         4 :> <<"easy_run", "tempo_run", "easy_run", "long_run">> @@
         5 :> <<"easy_run", "tempo_run", "easy_run", "recovery_run", "long_run">> @@
         6 :> <<"easy_run", "tempo_run", "easy_run", "hill_training",
                "recovery_run", "long_run">> @@
         7 :> <<"easy_run", "tempo_run", "easy_run", "interval_training",
                "easy_run", "recovery_run", "long_run">>),
     intermediate |->
        (3 :> <<"tempo_run", "interval_training", "long_run">> @@
         4 :> <<"easy_run", "tempo_run", "interval_training", "long_run">> @@
         5 :> <<"easy_run", "tempo_run", "interval_training", "hill_training",
                "long_run">> @@
         6 :> <<"easy_run", "tempo_run", "interval_training", "hill_training",
                "recovery_run", "long_run">> @@
         7 :> <<"easy_run", "tempo_run", "easy_run", "interval_training",
                "hill_training", "recovery_run", "long_run">>),
     advanced |->
        (4 :> <<"tempo_run", "interval_training", "hill_training", "long_run">> @@
         5 :> <<"easy_run", "tempo_run", "interval_training", "hill_training",
                "long_run">> @@
         6 :> <<"easy_run", "tempo_run", "interval_training", "hill_training",
                "tempo_run", "long_run">> @@
         7 :> <<"easy_run", "tempo_run", "easy_run", "interval_training",
                "hill_training", "tempo_run", "long_run">>)]

\* base_structures[fitness_level][days_per_week]: the list, or KeyError
get_weekly_structure(fitness_level, days_per_week) ==
    IF /\ days_per_week # None
       /\ days_per_week[1] \in DOMAIN base_structures[fitness_level]
    THEN Return(base_structures[fitness_level][days_per_week[1]])
    ELSE Raise("KeyError")

\* _determine_week_focus tapering from progress 0.8 on instead of 0.9
determine_week_focus_TaperAtEighty(week_number, total_weeks) ==
    IF 10 * week_number <= 3 * total_weeks THEN "Basbyggnad"
    ELSE IF 10 * week_number <= 7 * total_weeks THEN "Styrka och fart"
    ELSE IF 10 * week_number <= 8 * total_weeks THEN "Tavlingsforberedelse"
    ELSE "Avtrappning"

\* _determine_week_focus: progress = week_number / total_weeks against 0.3, 0.7, 0.9
\* (the binary64 quotient compares with the three literals as the exact one does)
determine_week_focus(week_number, total_weeks) ==
    IF 10 * week_number <= 3 * total_weeks THEN "Basbyggnad"
    ELSE IF 10 * week_number <= 7 * total_weeks THEN "Styrka och fart"
    ELSE IF 10 * week_number <= 9 * total_weeks THEN "Tavlingsforberedelse"
    ELSE "Avtrappning"

\* _calculate_base_distance: the base_distances table by speed category
calculate_base_distance(fitness_level, target_time) ==
    LET target_minutes == target_time[1][1] * 60 + target_time[2][1]
        speed_category == IF target_minutes < 150 THEN "fast"
                          ELSE IF target_minutes < 210 THEN "medium"
                          ELSE "slow"
        base_distances ==
            [beginner |-> [fast |-> 35, medium |-> 30, slow |-> 25],
             intermediate |-> [fast |-> 50, medium |-> 45, slow |-> 40],
             advanced |-> [fast |-> 70, medium |-> 60, slow |-> 55]]
    IN base_distances[fitness_level][speed_category]

\* round(n / d) of Python 3: to nearest, ties to the even integer
RoundHalfEven(n, d) ==
    LET q == n \div d
        r == n % d
    IN IF 2 * r > d \/ (2 * r = d /\ q % 2 = 1) THEN q + 1 ELSE q

\* 0.3 * math.sin((progress - 0.3) * math.pi / 0.4) in millionths, for the
\* <<week_number, total_weeks>> with 0.3 <= progress <= 0.7: the peak phase
\* (0.3 < progress <= 0.7) and the two weeks that end the base-building phase
PeakSineMicro ==
    <<3, 10>> :> 0 @@ <<6, 20>> :> 0 @@
    <<2, 4>> :> 300000 @@ <<2, 5>> :> 212132 @@ <<3, 5>> :> 212132 @@
    <<2, 6>> :> 77646 @@ <<3, 6>> :> 300000 @@ <<4, 6>> :> 77646 @@
    <<3, 7>> :> 254017 @@ <<4, 7>> :> 254017 @@ <<3, 8>> :> 166671 @@
    <<4, 8>> :> 300000 @@ <<5, 8>> :> 166671 @@ <<3, 9>> :> 77646 @@
    <<4, 9>> :> 271892 @@ <<5, 9>> :> 271892 @@ <<6, 9>> :> 77646 @@
    <<4, 10>> :> 212132 @@ <<5, 10>> :> 300000 @@ <<6, 10>> :> 212132 @@
    <<7, 10>> :> 0 @@ <<4, 11>> :> 143775 @@ <<5, 11>> :> 281085 @@
    <<6, 11>> :> 281085 @@ <<7, 11>> :> 143775 @@ <<4, 12>> :> 77646 @@
    <<5, 12>> :> 238006 @@ <<6, 12>> :> 300000 @@ <<7, 12>> :> 238006 @@
    <<8, 12>> :> 77646 @@ <<4, 13>> :> 18114 @@ <<5, 13>> :> 185016 @@
    <<6, 13>> :> 286416 @@ <<7, 13>> :> 286416 @@ <<8, 13>> :> 185016 @@
    <<9, 13>> :> 18114 @@ <<5, 14>> :> 130165 @@ <<6, 14>> :> 254017 @@
    <<7, 14>> :> 300000 @@ <<8, 14>> :> 254017 @@ <<9, 14>> :> 130165 @@
    <<5, 15>> :> 77646 @@ <<6, 15>> :> 212132 @@ <<7, 15>> :> 289778 @@
    <<8, 15>> :> 289778 @@ <<9, 15>> :> 212132 @@ <<10, 15>> :> 77646 @@
    <<5, 16>> :> 29405 @@ <<6, 16>> :> 166671 @@ <<7, 16>> :> 264576 @@
    <<8, 16>> :> 300000 @@ <<9, 16>> :> 264576 @@ <<10, 16>> :> 166671 @@
    <<11, 16>> :> 29405 @@ <<6, 17>> :> 121176 @@ <<7, 17>> :> 230800 @@
    <<8, 17>> :> 292031 @@ <<9, 17>> :> 292031 @@ <<10, 17>> :> 230800 @@
    <<11, 17>> :> 121176 @@ <<6, 18>> :> 77646 @@ <<7, 18>> :> 192836 @@
    <<8, 18>> :> 271892 @@ <<9, 18>> :> 300000 @@ <<10, 18>> :> 271892 @@
    <<11, 18>> :> 192836 @@ <<12, 18>> :> 77646 @@ <<6, 19>> :> 37108 @@
    <<7, 19>> :> 153566 @@ <<8, 19>> :> 244155 @@ <<9, 19>> :> 293615 @@
    <<10, 19>> :> 293615 @@ <<11, 19>> :> 244155 @@ <<12, 19>> :> 153566 @@
    <<13, 19>> :> 37108 @@ <<7, 20>> :> 114805 @@ <<8, 20>> :> 212132 @@
    <<9, 20>> :> 277164 @@ <<10, 20>> :> 300000 @@ <<11, 20>> :> 277164 @@
    <<12, 20>> :> 212132 @@ <<13, 20>> :> 114805 @@ <<14, 20>> :> 0

\* <<week_number, total_weeks, base_distance>> of the base-building phase whose
\* exact product base * (0.7 + progress) is k + 1/2 with k odd while the
\* binary64 product lies just below it, so that round() yields k
BelowTie ==
    {<<1, 5, 35>>, <<1, 5, 55>>, <<1, 7, 35>>, <<2, 10, 35>>, <<2, 10, 55>>,
     <<2, 14, 35>>, <<3, 15, 35>>, <<3, 15, 55>>, <<4, 15, 45>>, <<4, 20, 35>>,
     <<4, 20, 55>>}

\* _calculate_week_distance building up from 0.6 of the base instead of 0.7
calculate_week_distance_BuildFromSixty(week_number, total_weeks, base_distance) ==
    IF 10 * week_number <= 3 * total_weeks
    THEN RoundHalfEven(base_distance * (6 * total_weeks + 10 * week_number),
                       10 * total_weeks)
    ELSE IF 10 * week_number <= 7 * total_weeks
    THEN RoundHalfEven(base_distance
                           * (1000000 + PeakSineMicro[<<week_number, total_weeks>>]),
                       1000000)
    ELSE IF 10 * week_number <= 9 * total_weeks
    THEN base_distance
    ELSE RoundHalfEven(base_distance * 6, 10)

\* _calculate_week_distance tapering to 0.7 of the base instead of 0.6
calculate_week_distance_TaperSeventy(week_number, total_weeks, base_distance) ==
    IF 10 * week_number <= 3 * total_weeks
    THEN IF <<week_number, total_weeks, base_distance>> \in BelowTie
         THEN (base_distance * (7 * total_weeks + 10 * week_number))
                  \div (10 * total_weeks)
         ELSE RoundHalfEven(base_distance * (7 * total_weeks + 10 * week_number),
                            10 * total_weeks)
    ELSE IF 10 * week_number <= 7 * total_weeks
    THEN RoundHalfEven(base_distance
                           * (1000000 + PeakSineMicro[<<week_number, total_weeks>>]),
                       1000000)
    ELSE IF 10 * week_number <= 9 * total_weeks
    THEN base_distance
    ELSE RoundHalfEven(base_distance * 7, 10)

\* _calculate_week_distance tapering to 0.8 of the base instead of 0.6
calculate_week_distance_TaperEighty(week_number, total_weeks, base_distance) ==
    IF 10 * week_number <= 3 * total_weeks
    THEN IF <<week_number, total_weeks, base_distance>> \in BelowTie
         THEN (base_distance * (7 * total_weeks + 10 * week_number))
                  \div (10 * total_weeks)
         ELSE RoundHalfEven(base_distance * (7 * total_weeks + 10 * week_number),
                            10 * total_weeks)
    ELSE IF 10 * week_number <= 7 * total_weeks
    THEN RoundHalfEven(base_distance
                           * (1000000 + PeakSineMicro[<<week_number, total_weeks>>]),
                       1000000)
    ELSE IF 10 * week_number <= 9 * total_weeks
    THEN base_distance
    ELSE RoundHalfEven(base_distance * 8, 10)

\* _calculate_week_distance: int(round(base_distance * multiplier))
calculate_week_distance(week_number, total_weeks, base_distance) ==
    IF 10 * week_number <= 3 * total_weeks
    THEN IF <<week_number, total_weeks, base_distance>> \in BelowTie
         THEN (base_distance * (7 * total_weeks + 10 * week_number))
                  \div (10 * total_weeks)
         ELSE RoundHalfEven(base_distance * (7 * total_weeks + 10 * week_number),
                            10 * total_weeks)
    ELSE IF 10 * week_number <= 7 * total_weeks
    THEN RoundHalfEven(base_distance
                           * (1000000 + PeakSineMicro[<<week_number, total_weeks>>]),
                       1000000)
    ELSE IF 10 * week_number <= 9 * total_weeks
    THEN base_distance
    ELSE RoundHalfEven(base_distance * 6, 10)

\* preferred_days of _get_training_days, Monday = 0
preferred_days == <<0, 2, 4, 5, 1, 3, 6>>

\* sorted(): insertion of x into an ascending sequence
RECURSIVE Insert(_, _)
Insert(x, s) ==
    IF s = <<>> THEN <<x>>
    ELSE IF x <= Head(s) THEN <<x>> \o s
    ELSE <<Head(s)>> \o Insert(x, Tail(s))

RECURSIVE sorted(_)
sorted(s) == IF s = <<>> THEN <<>> ELSE Insert(Head(s), sorted(Tail(s)))

\* _get_training_days returning training_days as appended, without sorted()
get_training_days_Unsorted(week_start, num_sessions) ==
    LET training_days ==
            [i \in 1..num_sessions |-> week_start + preferred_days[((i - 1) % 7) + 1]]
    IN IF \E i \in 1..num_sessions : ~Returned(DateAdd(week_start,
                                                 preferred_days[((i - 1) % 7) + 1]))
       THEN Raise("OverflowError")
       ELSE Return(training_days)

\* _get_training_days (both classes): week_start + preferred_days[i % 7], sorted;
\* OverflowError when one of the dates is past date.max
get_training_days(week_start, num_sessions) ==
    LET training_days ==
            [i \in 1..num_sessions |-> week_start + preferred_days[((i - 1) % 7) + 1]]
    IN IF \E i \in 1..num_sessions : ~Returned(DateAdd(week_start,
                                                 preferred_days[((i - 1) % 7) + 1]))
       THEN Raise("OverflowError")
       ELSE Return(sorted(training_days))

\* _calculate_session_distance without the upper limits: max(lo, base_distance)
calculate_session_distance_NoUpperLimit(session_type, total_week_distance) ==
    LET distribution ==
            [easy_run |-> 15, recovery_run |-> 10, tempo_run |-> 20,
             interval_training |-> 15, hill_training |-> 15, long_run |-> 35]
        base_distance == total_week_distance * distribution[session_type]
    IN IF session_type = "long_run"
       THEN RoundHalfEven(Max(800, base_distance), 100)
       ELSE IF session_type = "recovery_run"
       THEN RoundHalfEven(Max(300, base_distance), 100)
       ELSE RoundHalfEven(Max(400, base_distance), 100)

\* _calculate_session_distance: share of the week, clamped, rounded (n / 100 km)
calculate_session_distance(session_type, total_week_distance) ==
    LET distribution ==
            [easy_run |-> 15, recovery_run |-> 10, tempo_run |-> 20,
             interval_training |-> 15, hill_training |-> 15, long_run |-> 35]
        base_distance == total_week_distance * distribution[session_type]
    IN IF session_type = "long_run"
       THEN RoundHalfEven(Max(800, Min(2500, base_distance)), 100)
       ELSE IF session_type = "recovery_run"
       THEN RoundHalfEven(Max(300, Min(800, base_distance)), 100)
       ELSE RoundHalfEven(Max(400, Min(1500, base_distance)), 100)

\* _calculate_pace: the base_paces table (a pace string is its token sequence)
calculate_pace(session_type) ==
    LET base_paces ==
            [easy_run |-> <<"6:00">>, recovery_run |-> <<"6:30">>,
             tempo_run |-> <<"5:20">>, interval_training |-> <<"4:50">>,
             hill_training |-> <<"5:40">>, long_run |-> <<"5:50">>]
    IN base_paces[session_type]

\* _create_training_session with a pace that follows the week's volume
create_training_session_PaceByVolume(date, session_type, total_week_distance) ==
    TrainingSession(date,
                    session_types[session_type].name,
                    Some(calculate_session_distance(session_type, total_week_distance)),
                    Some(IF total_week_distance > 40
                         THEN calculate_pace("tempo_run")
                         ELSE calculate_pace(session_type)),
                    Some(session_types[session_type].intensity))

\* _create_training_session
create_training_session(date, session_type, total_week_distance) ==
    TrainingSession(date,
                    session_types[session_type].name,
                    Some(calculate_session_distance(session_type, total_week_distance)),
                    Some(calculate_pace(session_type)),
                    Some(session_types[session_type].intensity))

\* _generate_week: the WeekPlan, or the exception of the first failing statement
generate_week(week_number, total_weeks, req, weekly_structure) ==
    LET week_start == DateAdd(req.start_date, 7 * (week_number - 1))
        week_end == DateAdd(week_start.value, 6)
        week_focus == determine_week_focus(week_number, total_weeks)
        base_distance == calculate_base_distance(req.fitness_level, req.target_time)
        week_distance == calculate_week_distance(week_number, total_weeks, base_distance)
        session_dates == get_training_days(week_start.value, Len(weekly_structure))
        sessions == [i \in 1..Len(weekly_structure) |->
                        create_training_session(session_dates.value[i],
                                                weekly_structure[i],
                                                week_distance)]
    IN IF ~Returned(week_start) THEN week_start
       ELSE IF ~Returned(week_end) THEN week_end
       ELSE IF ~Returned(session_dates) THEN session_dates
       ELSE IF \E i \in 1..Len(weekly_structure) : ~Returned(sessions[i])
       THEN Raise("ValidationError")
       ELSE WeekPlan(week_number, week_start.value, week_end.value, week_focus,
                     week_distance,
                     [i \in 1..Len(weekly_structure) |-> sessions[i].value])

\* sum of total_distance_km over a sequence of weeks
RECURSIVE SumWeekDistance(_)
SumWeekDistance(weeks) ==
    IF weeks = <<>> THEN 0
    ELSE Head(weeks).total_distance_km + SumWeekDistance(Tail(weeks))

\* TrainingPlanGenerator.generate_plan: the plan dict, or the exception raised
TrainingPlanGenerator_generate_plan(req) ==
    LET training_weeks == calculate_training_weeks(req.start_date, req.race_date)
        weekly_structure == get_weekly_structure(req.fitness_level,
                                                 req.training_days_per_week)
        week_plans == [w \in 1..training_weeks |->
                          generate_week(w, training_weeks, req, weekly_structure.value)]
        failing == {w \in 1..training_weeks : ~Returned(week_plans[w])}
        weeks == [w \in 1..training_weeks |-> week_plans[w].value]
    IN IF ~Returned(weekly_structure) THEN weekly_structure
       ELSE IF failing # {}
       THEN week_plans[CHOOSE w \in failing : \A v \in failing : w <= v]
       ELSE Return([weeks |-> weeks,
                    total_weeks |-> training_weeks,
                    total_distance_km |-> RoundHalfEven(SumWeekDistance(weeks), 1)])

----------------------------------------------------------------------------
(* AIEnhancedTrainingPlanGenerator *)

\* the except branch of _get_race_context
GenericContext == <<"Generell information om lidingo: 30km terranglopp med cirka 400 hojdmeter.">>

\* _get_race_context whose except branch returns an empty context
get_race_context_EmptyOnFailure(race_results, training_results) ==
    IF ~Returned(race_results) \/ ~Returned(training_results)
    THEN <<>>
    ELSE (IF race_results.value # <<>>
          THEN <<"LOPPINFORMATION:">> \o race_results.value ELSE <<>>)
         \o
         (IF training_results.value # <<>>
          THEN <<"TRANINGSINFORMATION:">> \o training_results.value ELSE <<>>)

\* _get_race_context: the context parts; the outcomes of the two store queries
\* are the arguments (the second query is not issued when the first raises)
get_race_context(race_results, training_results) ==
    IF ~Returned(race_results) \/ ~Returned(training_results)
    THEN GenericContext
    ELSE (IF race_results.value # <<>>
          THEN <<"LOPPINFORMATION:">> \o race_results.value ELSE <<>>)
         \o
         (IF training_results.value # <<>>
          THEN <<"TRANINGSINFORMATION:">> \o training_results.value ELSE <<>>)

\* AIEnhancedTrainingPlanGenerator._calculate_training_weeks counting started
\* weeks instead of whole weeks
AIEnhanced_calculate_training_weeks_StartedWeeks(start_date, race_date) ==
    Max(4, Min(20, (race_date - start_date + 6) \div 7))

\* AIEnhancedTrainingPlanGenerator._calculate_training_weeks, the class's own
\* copy of the method: max(4, min(20, delta.days // 7))
AIEnhanced_calculate_training_weeks(start_date, race_date) ==
    Max(4, Min(20, (race_date - start_date) \div 7))

\* _create_training_plan_prompt interpolating the generic context instead of
\* its race_context argument
create_training_plan_prompt_GenericContext(req, context) ==
    [fitness_level |-> req.fitness_level,
     target_time |-> req.target_time,
     training_days_per_week |-> req.training_days_per_week,
     training_weeks |-> AIEnhanced_calculate_training_weeks(req.start_date,
                                                            req.race_date),
     start_date |-> req.start_date,
     race_date |-> req.race_date,
     race_context |-> GenericContext]

\* _create_training_plan_prompt: the values interpolated into the prompt
create_training_plan_prompt(req, context) ==
    [fitness_level |-> req.fitness_level,
     target_time |-> req.target_time,
     training_days_per_week |-> req.training_days_per_week,
     training_weeks |-> AIEnhanced_calculate_training_weeks(req.start_date,
                                                            req.race_date),
     start_date |-> req.start_date,
     race_date |-> req.race_date,
     race_context |-> context]

\* re.search(r'\{.*\}', content, re.DOTALL): a "{" with a "}" somewhere after it
re_search_json(content) == content.has_open /\ content.has_close

\* json.loads(json_str): the object, or JSONDecodeError
json_loads(content) ==
    IF content.json = None THEN Raise("JSONDecodeError") ELSE Return(content.json[1])

\* _generate_ai_training_plan raising when the reply holds no "{...}" block
\* instead of wrapping the text
generate_ai_training_plan_NoBlockRaises(resp) ==
    IF resp.success
    THEN IF re_search_json(resp.response)
         THEN json_loads(resp.response)
         ELSE Raise("ValueError")
    ELSE Raise("Exception")

\* _generate_ai_training_plan after race_buddy_agents.chat returned resp
generate_ai_training_plan(resp) ==
    IF resp.success
    THEN IF re_search_json(resp.response)
         THEN json_loads(resp.response)
         ELSE Return([ai_response |-> resp.response])
    ELSE Raise("Exception")

\* dict.get(key, default)
Get(d, key, default) == IF key \in DOMAIN d THEN d[key] ELSE default

\* the tokens a pace "\d+:\d+" can be in a session description
PaceTokens == {"6:30", "6:45", "7:00"}

\* re.search(r'@\s*(\d+:\d+)/km', d): positions <<at, pace>> of the matches
SinglePaceMatches(d) ==
    {m \in (1..Len(d)) \X (1..Len(d)) :
        /\ d[m[1]] = "@"
        /\ m[1] < m[2]
        /\ \A k \in (m[1] + 1)..(m[2] - 1) : d[k] = " "
        /\ d[m[2]] \in PaceTokens
        /\ m[2] + 1 <= Len(d)
        /\ d[m[2] + 1] = "/km"}

\* re.search(r'(\d+:\d+)-(\d+:\d+)/km', d): start positions of the matches
RangePaceMatches(d) ==
    {k \in 1..Len(d) :
        /\ k + 3 <= Len(d)
        /\ d[k] \in PaceTokens
        /\ d[k + 1] = "-"
        /\ d[k + 2] \in PaceTokens
        /\ d[k + 3] = "/km"}

\* _extract_pace trying the range pattern before the "@" pattern
extract_pace_RangeFirst(d) ==
    IF RangePaceMatches(d) # {}
    THEN LET k == CHOOSE x \in RangePaceMatches(d) :
                      \A y \in RangePaceMatches(d) : x <= y
         IN Some(<<d[k], "-", d[k + 2]>>)
    ELSE IF SinglePaceMatches(d) # {}
    THEN LET m == CHOOSE x \in SinglePaceMatches(d) :
                      \A y \in SinglePaceMatches(d) : x[1] <= y[1]
         IN Some(<<d[m[2]]>>)
    ELSE None

\* _extract_pace on the token sequence of the description
extract_pace(d) ==
    IF SinglePaceMatches(d) # {}
    THEN LET m == CHOOSE x \in SinglePaceMatches(d) :
                      \A y \in SinglePaceMatches(d) : x[1] <= y[1]
         IN Some(<<d[m[2]]>>)
    ELSE IF RangePaceMatches(d) # {}
    THEN LET k == CHOOSE x \in RangePaceMatches(d) :
                      \A y \in RangePaceMatches(d) : x <= y
         IN Some(<<d[k], "-", d[k + 2]>>)
    ELSE None

\* _determine_intensity
determine_intensity(session_type) ==
    LET intensity_map ==
            [Grundtraning |-> "low", Langdpass |-> "low-medium",
             Tempotraning |-> "medium", Intervall |-> "high",
             Backtraning |-> "medium-high", Aterhamtning |-> "very_low"]
    IN Get(intensity_map, session_type, "medium")

\* session.distance_km or 0
OrZero(distance_km) == IF distance_km = None THEN 0 ELSE distance_km[1]

RECURSIVE SumSessionDistance(_)
SumSessionDistance(sessions) ==
    IF sessions = <<>> THEN 0
    ELSE OrZero(Head(sessions).distance_km) + SumSessionDistance(Tail(sessions))

\* the loop body of _structure_plan_data starting week n a whole week late:
\* timedelta(weeks=vecka) for timedelta(weeks=vecka - 1)
structure_week_StartsWeekLate(week_data, req) ==
    LET week_start == DateAdd(req.start_date, 7 * week_data["vecka"])
        pass_list == week_data["traningspass"]
        training_days == get_training_days(week_start.value, Len(pass_list))
        sessions == [i \in 1..Len(pass_list) |->
                        TrainingSession(training_days.value[i],
                                        Get(pass_list[i], "typ", "Traning"),
                                        Get(pass_list[i], "distans_km", Some(5)),
                                        extract_pace(Get(pass_list[i], "pass", <<>>)),
                                        Some(determine_intensity(
                                                 Get(pass_list[i], "typ", ""))))]
        week_sessions == [i \in 1..Len(pass_list) |-> sessions[i].value]
        week_end == DateAdd(week_start.value, 6)
    IN IF "vecka" \notin DOMAIN week_data THEN Raise("KeyError")
       ELSE IF ~Returned(week_start) THEN week_start
       ELSE IF "traningspass" \notin DOMAIN week_data THEN Raise("KeyError")
       ELSE IF ~Returned(training_days) THEN training_days
       ELSE IF \E i \in 1..Len(pass_list) : ~Returned(sessions[i])
       THEN Raise("ValidationError")
       ELSE IF ~Returned(week_end) THEN week_end
       ELSE WeekPlan(week_data["vecka"], week_start.value, week_end.value,
                     Get(week_data, "fokus", "Traning"),
                     SumSessionDistance(week_sessions), week_sessions)

\* body of the loop over ai_plan["veckor"] in _structure_plan_data: the WeekPlan
\* of one week_data, or the exception of the first failing statement
structure_week(week_data, req) ==
    LET week_start == DateAdd(req.start_date, 7 * (week_data["vecka"] - 1))
        pass_list == week_data["traningspass"]
        training_days == get_training_days(week_start.value, Len(pass_list))
        sessions == [i \in 1..Len(pass_list) |->
                        TrainingSession(training_days.value[i],
                                        Get(pass_list[i], "typ", "Traning"),
                                        Get(pass_list[i], "distans_km", Some(5)),
                                        extract_pace(Get(pass_list[i], "pass", <<>>)),
                                        Some(determine_intensity(
                                                 Get(pass_list[i], "typ", ""))))]
        week_sessions == [i \in 1..Len(pass_list) |-> sessions[i].value]
        week_end == DateAdd(week_start.value, 6)
    IN IF "vecka" \notin DOMAIN week_data THEN Raise("KeyError")
       ELSE IF ~Returned(week_start) THEN week_start
       ELSE IF "traningspass" \notin DOMAIN week_data THEN Raise("KeyError")
       ELSE IF ~Returned(training_days) THEN training_days
       ELSE IF \E i \in 1..Len(pass_list) : ~Returned(sessions[i])
       THEN Raise("ValidationError")
       ELSE IF ~Returned(week_end) THEN week_end
       ELSE WeekPlan(week_data["vecka"], week_start.value, week_end.value,
                     Get(week_data, "fokus", "Traning"),
                     SumSessionDistance(week_sessions), week_sessions)

\* the loop of _structure_plan_data with a failing week skipped instead of
\* ending the loop
structure_weeks_SkipFailing(ai, req) ==
    IF "veckor" \in DOMAIN ai
    THEN LET week_plans == [k \in 1..Len(ai["veckor"]) |->
                               structure_week(ai["veckor"][k], req)]
             kept == SelectSeq(week_plans, Returned)
         IN Return([k \in 1..Len(kept) |-> kept[k].value])
    ELSE Return(<<>>)

\* the weeks list _structure_plan_data builds from ai_plan, or the exception
\* that ends the loop
structure_weeks(ai, req) ==
    IF "veckor" \in DOMAIN ai
    THEN LET week_plans == [k \in 1..Len(ai["veckor"]) |->
                               structure_week(ai["veckor"][k], req)]
             failing == {k \in 1..Len(ai["veckor"]) : ~Returned(week_plans[k])}
         IN IF failing # {}
            THEN week_plans[CHOOSE k \in failing : \A j \in failing : k <= j]
            ELSE Return([k \in 1..Len(ai["veckor"]) |-> week_plans[k].value])
    ELSE Return(<<>>)

\* _structure_plan_data reaches "if not weeks" with an empty list
NoWeeks(ai, req) ==
    /\ Returned(structure_weeks(ai, req))
    /\ structure_weeks(ai, req).value = <<>>

\* _structure_plan_data with total_distance overwritten by each week ("=" for "+=")
structure_plan_data_LastWeekTotal(ai, req) ==
    LET weeks == structure_weeks(ai, req)
    IN IF ~Returned(weeks) THEN weeks
       ELSE IF weeks.value = <<>> THEN TrainingPlanGenerator_generate_plan(req)
       ELSE Return([weeks |-> weeks.value,
                    total_weeks |-> Len(weeks.value),
                    total_distance_km |->
                        RoundHalfEven(weeks.value[Len(weeks.value)].total_distance_km, 1)])

\* _structure_plan_data reporting the requested week count as total_weeks
structure_plan_data_RequestedWeeks(ai, req) ==
    LET weeks == structure_weeks(ai, req)
    IN IF ~Returned(weeks) THEN weeks
       ELSE IF weeks.value = <<>> THEN TrainingPlanGenerator_generate_plan(req)
       ELSE Return([weeks |-> weeks.value,
                    total_weeks |-> calculate_training_weeks(req.start_date, req.race_date),
                    total_distance_km |->
                        RoundHalfEven(SumWeekDistance(weeks.value), 1)])

\* _structure_plan_data returning an empty plan when no week was mapped
structure_plan_data_EmptyPlan(ai, req) ==
    LET weeks == structure_weeks(ai, req)
    IN IF ~Returned(weeks) THEN weeks
       ELSE Return([weeks |-> weeks.value,
                    total_weeks |-> Len(weeks.value),
                    total_distance_km |->
                        RoundHalfEven(SumWeekDistance(weeks.value), 1)])

\* _structure_plan_data
structure_plan_data(ai, req) ==
    LET weeks == structure_weeks(ai, req)
    IN IF ~Returned(weeks) THEN weeks
       ELSE IF weeks.value = <<>> THEN TrainingPlanGenerator_generate_plan(req)
       ELSE Return([weeks |-> weeks.value,
                    total_weeks |-> Len(weeks.value),
                    total_distance_km |->
                        RoundHalfEven(SumWeekDistance(weeks.value), 1)])

----------------------------------------------------------------------------
(* Inputs *)

\* 2024-01-01, a Monday
Date20240101 == 738886

\* longest "veckor" list of a reply
MaxAIWeeks == 2

\* <<start_date, race_date>> of the bodies sent to the endpoint: race on the
\* start date (rejected), 10 days later (clamped up to 4 weeks), 84 days later
\* (12 weeks), 150 days later (clamped down to 20 weeks)
DatePairs ==
    {<<Date20240101, Date20240101>>,
     <<Date20240101, Date20240101 + 10>>,
     <<Date20240101, Date20240101 + 84>>,
     <<Date20240101, Date20240101 + 150>>}

\* the same for requests at the end of the date range: a start 27 days before
\* date.max (the fourth week ends on date.max) and one 20 days before it
LateDatePairs ==
    {<<DateMax - 27, DateMax - 26>>,
     <<DateMax - 20, DateMax - 1>>}

\* target_time values: "02:00:00" and one with hour 24 (rejected)
TargetTimes == {HMS(2, 0, 0), HMS(24, 0, 0)}

\* training_days_per_week of a body: null, or an integer
DaysInputs == {None, Some(MinTrainingDays - 1), Some(3), Some(4), Some(MaxTrainingDays)}

\* the runner of the bodies whose other fields vary: 180 cm, 75 kg, 30 years
Runner == [height_cm |-> 180, weight_kg |-> 75, age |-> 30]

\* the bodies with training_days_per_week omitted, and those with it set
Bodies(levels, times, pairs, days) ==
    {Runner @@ [fitness_level |-> f, target_time |-> t,
                start_date |-> dp[1], race_date |-> dp[2]] :
        f \in levels, t \in times, dp \in pairs}
    \cup
    {Runner @@ [fitness_level |-> f, target_time |-> t,
                start_date |-> dp[1], race_date |-> dp[2],
                training_days_per_week |-> d] :
        f \in levels, t \in times, dp \in pairs, d \in days}

RequestBodies == Bodies(FitnessLevelEnum, TargetTimes, DatePairs, DaysInputs)

LateRequestBodies == Bodies(FitnessLevelEnum, TargetTimes, LateDatePairs, DaysInputs)

\* the inputs of the deterministic generator taken alone: every day count, the
\* three speed categories at their thresholds, week counts around both clamps
DetDatePairs ==
    {<<Date20240101, Date20240101 + g>> : g \in {0, 1, 27, 28, 70, 84, 139, 140, 150}}
    \cup {<<DateMax - 20, DateMax - 1>>, <<DateMax - 27, DateMax - 26>>}
    \cup {<<Date20240101 + 1, Date20240101 + 36>>}

DetTargetTimes ==
    {HMS(2, 29, 59), HMS(2, 30, 0), HMS(3, 29, 0), HMS(3, 30, 0), HMS(0, 60, 0)}

DetDaysInputs ==
    {None} \cup {Some(d) : d \in (MinTrainingDays - 1)..(MaxTrainingDays + 1)}

DetRequestBodies == Bodies(FitnessLevelEnum, DetTargetTimes, DetDatePairs, DetDaysInputs)

\* outcomes of vector_store.query_race_data and query_training_data
RaceResults == {Raise("StoreError"), Return(<<"race passage">>)}

TrainingResults == {Raise("StoreError"), Return(<<"training passage">>)}

\* entries of "traningspass"
SessionOk == [distans_km |-> Some(5), typ |-> "Intervall"]

SessionNoDistance == [typ |-> "Langdpass"]

SessionNegative == [distans_km |-> Some(-1), typ |-> "Grundtraning"]

\* entries of "veckor": two well-formed weeks, one without "vecka", one with
\* week number 0, one whose second session has a negative distance
WeekChoices ==
    {[vecka |-> 1, fokus |-> "Basbyggnad", traningspass |-> <<SessionOk, SessionNoDistance>>],
     [vecka |-> 2, traningspass |-> <<SessionOk>>],
     [traningspass |-> <<SessionOk>>],
     [vecka |-> 0, traningspass |-> <<SessionOk>>],
     [vecka |-> 2, traningspass |-> <<SessionOk, SessionNegative>>]}

\* objects a reply can embed: with a "veckor" list, or without one
AIPlans ==
    {[veckor |-> ws] : ws \in UNION {[1..n -> WeekChoices] : n \in 0..MaxAIWeeks}}
    \cup {[plan |-> "text"]}

\* final_response texts: no "{", a "{" never closed, a block that does not
\* decode, a block that decodes
Contents ==
    {[has_open |-> FALSE, has_close |-> FALSE, json |-> None],
     [has_open |-> TRUE, has_close |-> FALSE, json |-> None],
     [has_open |-> TRUE, has_close |-> TRUE, json |-> None]}
    \cup {[has_open |-> TRUE, has_close |-> TRUE, json |-> Some(a)] : a \in AIPlans}

\* RaceBuddyAgents.chat: the success dict, or the dict of its except branch
ChatResponses ==
    {[success |-> TRUE, response |-> c] : c \in Contents}
    \cup {[success |-> FALSE, error |-> "graph.invoke failed"]}

----------------------------------------------------------------------------
(* The endpoint generate_ai_training_plan and the steps of generate_plan *)

Pending == [exc |-> "pending"]

Invocations == DOMAIN pc

\* the state when the calls ids of the endpoint have received their bodies
InitOver(ids, bodies) ==
    /\ request \in [ids -> bodies]
    /\ pc = [i \in ids |-> "Received"]
    /\ retrieved = [i \in ids |-> None]
    /\ race_context = [i \in ids |-> None]
    /\ ai_prompt = [i \in ids |-> None]
    /\ response = [i \in ids |-> None]
    /\ ai_plan = [i \in ids |-> Pending]
    /\ outcome = [i \in ids |-> Pending]
    /\ http = [i \in ids |-> Pending]
    /\ store_calls = [i \in ids |-> 0]
    /\ gen_calls = [i \in ids |-> 0]
    /\ det_calls = [i \in ids |-> 0]

InitWith(bodies) == InitOver({1}, bodies)

Init == InitWith(RequestBodies)

\* FastAPI builds the TrainingPlanRequest; a ValidationError ends the call
ConstructRequest(i) ==
    /\ pc[i] = "Received"
    /\ LET r == TrainingPlanRequest(request[i])
       IN IF Returned(r)
          THEN /\ request' = [request EXCEPT ![i] = r.value]
               /\ pc' = [pc EXCEPT ![i] = "NotStarted"]
               /\ http' = http
          ELSE /\ request' = request
               /\ pc' = [pc EXCEPT ![i] = "ValidationError"]
               /\ http' = [http EXCEPT ![i] = r]
    /\ UNCHANGED <<retrieved, race_context, ai_prompt, response, ai_plan, outcome,
                   store_calls, gen_calls, det_calls>>

\* generate_plan step 1: _get_race_context
GetRaceContext(i, race_results, training_results) ==
    /\ pc[i] = "NotStarted"
    /\ retrieved' = [retrieved EXCEPT ![i] = Some(<<race_results, training_results>>)]
    /\ race_context' = [race_context EXCEPT ![i] =
                           Some(get_race_context(race_results, training_results))]
    /\ store_calls' = [store_calls EXCEPT ![i] =
                          IF Returned(race_results) THEN 2 ELSE 1]
    /\ pc' = [pc EXCEPT ![i] = "ContextRetrieved"]
    /\ UNCHANGED <<request, ai_prompt, response, ai_plan, outcome, http,
                   gen_calls, det_calls>>

\* generate_plan step 2: _create_training_plan_prompt
CreateTrainingPlanPrompt(i) ==
    /\ pc[i] = "ContextRetrieved"
    /\ ai_prompt' = [ai_prompt EXCEPT ![i] =
                        Some(create_training_plan_prompt(request[i], race_context[i][1]))]
    /\ pc' = [pc EXCEPT ![i] = "PromptBuilt"]
    /\ UNCHANGED <<request, retrieved, race_context, response, ai_plan, outcome, http,
                   store_calls, gen_calls, det_calls>>

\* generate_plan step 3: _generate_ai_training_plan, the chat call included
GenerateAITrainingPlan(i, resp) ==
    /\ pc[i] = "PromptBuilt"
    /\ response' = [response EXCEPT ![i] = Some(resp)]
    /\ gen_calls' = [gen_calls EXCEPT ![i] = @ + 1]
    /\ ai_plan' = [ai_plan EXCEPT ![i] = generate_ai_training_plan(resp)]
    /\ pc' = [pc EXCEPT ![i] = "AIAttempted"]
    /\ UNCHANGED <<request, retrieved, race_context, ai_prompt, outcome, http,
                   store_calls, det_calls>>

\* outcome of the try block of generate_plan once step 3 is done
TryOutcome(i) ==
    IF Returned(ai_plan[i])
    THEN structure_plan_data(ai_plan[i].value, request[i])
    ELSE ai_plan[i]

\* generate_plan step 4 returning: _structure_plan_data hands back a plan, mapped
\* from the reply or produced by its own TrainingPlanGenerator
StructurePlanData(i) ==
    /\ pc[i] = "AIAttempted"
    /\ Returned(TryOutcome(i))
    /\ outcome' = [outcome EXCEPT ![i] = TryOutcome(i)]
    /\ IF NoWeeks(ai_plan[i].value, request[i])
       THEN /\ pc' = [pc EXCEPT ![i] = "FallbackGenerated"]
            /\ det_calls' = [det_calls EXCEPT ![i] = @ + 1]
       ELSE /\ pc' = [pc EXCEPT ![i] = "AISucceeded"]
            /\ det_calls' = det_calls
    /\ UNCHANGED <<request, retrieved, race_context, ai_prompt, response, ai_plan, http,
                   store_calls, gen_calls>>

\* the except branch of generate_plan falling back with the default day count
\* in place of the request's
Fallback_DefaultDays(i) ==
    LET req == [request[i] EXCEPT !.training_days_per_week = Some(DefaultTrainingDays)]
    IN /\ pc[i] = "AIAttempted"
       /\ ~Returned(TryOutcome(i))
       /\ outcome' = [outcome EXCEPT ![i] = TrainingPlanGenerator_generate_plan(req)]
       /\ pc' = [pc EXCEPT ![i] =
                    IF Returned(TrainingPlanGenerator_generate_plan(req))
                    THEN "FallbackGenerated" ELSE "Failed"]
       /\ det_calls' = [det_calls EXCEPT ![i] =
                           IF Returned(ai_plan[i]) /\ NoWeeks(ai_plan[i].value, request[i])
                           THEN @ + 2 ELSE @ + 1]
       /\ UNCHANGED <<request, retrieved, race_context, ai_prompt, response, ai_plan,
                      http, store_calls, gen_calls>>

\* the except branch of generate_plan falling back on a request that another
\* call left on the shared generator object instead of its own argument
Fallback_SharedRequest(i) ==
    LET others == {j \in Invocations \ {i} : pc[j] \notin {"Received", "ValidationError"}}
        req == IF others = {} THEN request[i] ELSE request[CHOOSE j \in others : TRUE]
    IN /\ pc[i] = "AIAttempted"
       /\ ~Returned(TryOutcome(i))
       /\ outcome' = [outcome EXCEPT ![i] = TrainingPlanGenerator_generate_plan(req)]
       /\ pc' = [pc EXCEPT ![i] =
                    IF Returned(TrainingPlanGenerator_generate_plan(req))
                    THEN "FallbackGenerated" ELSE "Failed"]
       /\ det_calls' = [det_calls EXCEPT ![i] =
                           IF Returned(ai_plan[i]) /\ NoWeeks(ai_plan[i].value, request[i])
                           THEN @ + 2 ELSE @ + 1]
       /\ UNCHANGED <<request, retrieved, race_context, ai_prompt, response, ai_plan,
                      http, store_calls, gen_calls>>

\* the except branch of generate_plan: step 3 or step 4 raised, the plan of a
\* fresh TrainingPlanGenerator is returned or its exception leaves generate_plan
Fallback(i) ==
    /\ pc[i] = "AIAttempted"
    /\ ~Returned(TryOutcome(i))
    /\ outcome' = [outcome EXCEPT ![i] = TrainingPlanGenerator_generate_plan(request[i])]
    /\ pc' = [pc EXCEPT ![i] =
                 IF Returned(TrainingPlanGenerator_generate_plan(request[i]))
                 THEN "FallbackGenerated" ELSE "Failed"]
    /\ det_calls' = [det_calls EXCEPT ![i] =
                        IF Returned(ai_plan[i]) /\ NoWeeks(ai_plan[i].value, request[i])
                        THEN @ + 2 ELSE @ + 1]
    /\ UNCHANGED <<request, retrieved, race_context, ai_prompt, response, ai_plan, http,
                   store_calls, gen_calls>>

\* the response dict of generate_ai_training_plan
ResponseDict(req, plan_data) ==
    [success |-> TRUE,
     plan_summary |-> [total_weeks |-> plan_data.total_weeks,
                       total_distance_km |-> plan_data.total_distance_km,
                       start_date |-> req.start_date,
                       race_date |-> req.race_date],
     raw_plan_data |-> plan_data]

\* generate_ai_training_plan after ai_training_generator.generate_plan: the
\* response, or its except branch with training_generator and "fallback_used"
EndpointRespond(i) ==
    /\ pc[i] \in {"AISucceeded", "FallbackGenerated", "Failed"}
    /\ http[i] = Pending
    /\ http' = [http EXCEPT ![i] =
                   IF Returned(outcome[i])
                   THEN Return(ResponseDict(request[i], outcome[i].value))
                   ELSE IF Returned(TrainingPlanGenerator_generate_plan(request[i]))
                   THEN Return(ResponseDict(request[i],
                                   TrainingPlanGenerator_generate_plan(request[i]).value)
                               @@ [fallback_used |-> TRUE])
                   ELSE Raise("HTTPException")]
    /\ UNCHANGED <<pc, request, retrieved, race_context, ai_prompt, response, ai_plan,
                   outcome, store_calls, gen_calls, det_calls>>

Next ==
    \E i \in Invocations :
        \/ ConstructRequest(i)
        \/ \E rr \in RaceResults, tr \in TrainingResults : GetRaceContext(i, rr, tr)
        \/ CreateTrainingPlanPrompt(i)
        \/ \E resp \in ChatResponses : GenerateAITrainingPlan(i, resp)
        \/ StructurePlanData(i)
        \/ Fallback(i)
        \/ EndpointRespond(i)

Spec == Init /\ [][Next]_vars

\* the same pipeline on requests at the end of the date range
InitLate == InitWith(LateRequestBodies)

SpecLate == InitLate /\ [][Next]_vars

----------------------------------------------------------------------------
(* The deterministic generator called on its own *)

\* training_generator.generate_plan(request) on a constructed request
CallTrainingGenerator(i) ==
    /\ pc[i] = "NotStarted"
    /\ outcome' = [outcome EXCEPT ![i] = TrainingPlanGenerator_generate_plan(request[i])]
    /\ det_calls' = [det_calls EXCEPT ![i] = @ + 1]
    /\ pc' = [pc EXCEPT ![i] =
                 IF Returned(TrainingPlanGenerator_generate_plan(request[i]))
                 THEN "DetReturned" ELSE "DetRaised"]
    /\ UNCHANGED <<request, retrieved, race_context, ai_prompt, response, ai_plan, http,
                   store_calls, gen_calls>>

InitDet == InitWith(DetRequestBodies)

NextDet ==
    \E i \in Invocations :
        \/ ConstructRequest(i)
        \/ CallTrainingGenerator(i)

SpecDet == InitDet /\ [][NextDet]_vars

----------------------------------------------------------------------------
(* Construction of the request on bodies at and around every constraint *)

\* target_time strings: "02:00:00", "00:00:00", "23:59:59", "24:00:00",
\* "02:60:00", "02:00:60", "-1:00:00", "02:30", "02:00:00:00", "02:xx:00", "soon"
ValidationTargetTimes ==
    {HMS(2, 0, 0), HMS(0, 0, 0), HMS(23, 59, 59), HMS(24, 0, 0), HMS(2, 60, 0),
     HMS(2, 0, 60), HMS(-1, 0, 0), <<Some(2), Some(30)>>,
     <<Some(2), Some(0), Some(0), Some(0)>>, <<Some(2), None, Some(0)>>, <<None>>}

\* race the day before the start, on it, the day after, twelve weeks after
ValidationDatePairs ==
    {<<Date20240101, Date20240101 + g>> : g \in {-1, 0, 1, 84}}

ValidationDaysInputs ==
    {None, Some(MinTrainingDays - 1), Some(MinTrainingDays), Some(MaxTrainingDays),
     Some(MaxTrainingDays + 1)}

\* height_cm, weight_kg and age at and just outside their limits
ValidationRunners ==
    [height_cm : {MinHeightCm - 1, MinHeightCm, MaxHeightCm, MaxHeightCm + 1},
     weight_kg : {MinWeightKg - 1, MinWeightKg, MaxWeightKg, MaxWeightKg + 1},
     age : {MinAge - 1, MinAge, MaxAge, MaxAge + 1}]

ValidationBodies ==
    {r @@ [fitness_level |-> "intermediate", target_time |-> t,
           start_date |-> dp[1], race_date |-> dp[2]] :
        r \in ValidationRunners, t \in ValidationTargetTimes, dp \in ValidationDatePairs}
    \cup
    {r @@ [fitness_level |-> "intermediate", target_time |-> t,
           start_date |-> dp[1], race_date |-> dp[2],
           training_days_per_week |-> d] :
        r \in ValidationRunners, t \in ValidationTargetTimes,
        dp \in ValidationDatePairs, d \in ValidationDaysInputs}

InitValidate == InitWith(ValidationBodies)

\* the request is constructed, then handed to the generator if it exists
SpecValidate == InitValidate /\ [][NextDet]_vars

----------------------------------------------------------------------------
(* Replies whose sessions carry a description ("pass") to extract the pace from *)

\* longest description built from every token
MaxDescriptionLen == 4

\* the tokens of a description: "@", white space, "-", "/km", two paces, and
\* any other text
DescriptionTokens == {"@", " ", "-", "/km", "6:45", "7:00", "txt"}

\* "4 x 3 min uppfor @ 6:45-7:00/km, joggvila"
DescriptionUphill ==
    <<"txt", " ", "@", " ", "6:45", "-", "7:00", "/km", "txt">>

\* a pace token is a whole run of digits, ":" and digits: two of them are
\* never adjacent in the token sequence of a text
Tokenised(d) ==
    \A k \in 1..(Len(d) - 1) : ~(d[k] \in PaceTokens /\ d[k + 1] \in PaceTokens)

\* every description of up to MaxDescriptionLen tokens, the uphill session, and
\* descriptions with two matches: a range before an "@" pace, two "@" paces,
\* two ranges
Descriptions ==
    {d \in UNION {[1..n -> DescriptionTokens] : n \in 0..MaxDescriptionLen} :
        Tokenised(d)}
    \cup {DescriptionUphill,
          <<"6:45", "-", "7:00", "/km", " ", "@", "6:30", "/km">>,
          <<"@", " ", " ", "7:00", "/km", "txt", "@", "6:30", "/km">>,
          <<"6:30", "-", "6:45", "/km", " ", "6:45", "-", "7:00", "/km">>}

\* replies with one week of one session described by d, and a failed call
PaceChatResponses ==
    {[success |-> TRUE,
      response |-> [has_open |-> TRUE, has_close |-> TRUE,
                    json |-> Some([veckor |->
                                <<[vecka |-> 1,
                                   traningspass |-> <<[typ |-> "Backtraning",
                                                       pass |-> d]>>]>>])]] :
        d \in Descriptions}
    \cup {[success |-> FALSE, error |-> "graph.invoke failed"]}

InitPace ==
    InitWith(Bodies({"intermediate"}, {HMS(2, 0, 0)},
                    {<<Date20240101, Date20240101 + 84>>}, {}))

NextPace ==
    \E i \in Invocations :
        \/ ConstructRequest(i)
        \/ GetRaceContext(i, Return(<<"race passage">>), Return(<<"training passage">>))
        \/ CreateTrainingPlanPrompt(i)
        \/ \E resp \in PaceChatResponses : GenerateAITrainingPlan(i, resp)
        \/ StructurePlanData(i)
        \/ Fallback(i)
        \/ EndpointRespond(i)

SpecPace == InitPace /\ [][NextPace]_vars

----------------------------------------------------------------------------
(* Two calls of the endpoint in flight at once on the module-level generators *)

\* the bodies of the concurrent calls: with and without a template, day count
\* omitted or given
ConcRequestBodies ==
    Bodies({"beginner", "advanced"}, {HMS(2, 0, 0)},
           {<<Date20240101, Date20240101 + 10>>}, {Some(MinTrainingDays)})

\* the replies of the concurrent calls: a failed call, a text without block,
\* a one-week plan
ConcChatResponses ==
    {[success |-> FALSE, error |-> "graph.invoke failed"],
     [success |-> TRUE,
      response |-> [has_open |-> FALSE, has_close |-> FALSE, json |-> None]],
     [success |-> TRUE,
      response |-> [has_open |-> TRUE, has_close |-> TRUE,
                    json |-> Some([veckor |->
                                <<[vecka |-> 1, traningspass |-> <<SessionOk>>]>>])]]}

InitConc == InitOver({1, 2}, ConcRequestBodies)

\* any step of either call: the event loop and the worker threads may order
\* the steps of the two calls in every way
NextConc ==
    \E i \in Invocations :
        \/ ConstructRequest(i)
        \/ \E rr \in RaceResults, tr \in TrainingResults : GetRaceContext(i, rr, tr)
        \/ CreateTrainingPlanPrompt(i)
        \/ \E resp \in ConcChatResponses : GenerateAITrainingPlan(i, resp)
        \/ StructurePlanData(i)
        \/ Fallback(i)
        \/ EndpointRespond(i)

SpecConc == InitConc /\ [][NextConc]_vars

----------------------------------------------------------------------------
(* The pipeline on requests whose dates lie at and around both week clamps *)

\* days from start_date to race_date: below four weeks, around every change
\* of the week count near the clamps, and far beyond twenty weeks
WeekGaps == {1, 6, 7, 27, 28, 29, 34, 35, 83, 84, 133, 139, 140, 141, 365, 3650}

WeekDatePairs == {<<Date20240101, Date20240101 + g>> : g \in WeekGaps}

InitWeeks ==
    InitWith(Bodies({"intermediate"}, {HMS(2, 0, 0)}, WeekDatePairs, {}))

SpecWeeks == InitWeeks /\ [][NextConc]_vars

----------------------------------------------------------------------------
(* The deterministic generator on plans of every length from 4 to 20 weeks *)

\* target_time values of the three speed categories
PhaseTargetTimes == {HMS(2, 0, 0), HMS(3, 0, 0), HMS(4, 0, 0)}

\* race 4, 5, ..., 20 whole weeks after the start
PhaseDatePairs == {<<Date20240101, Date20240101 + 7 * n>> : n \in 4..20}

InitPhases ==
    InitWith(Bodies(FitnessLevelEnum, PhaseTargetTimes, PhaseDatePairs, {}))

SpecPhases == InitPhases /\ [][NextDet]_vars

-----------------------------------------------------------------------------
(* Two calls of the deterministic generator side by side *)

\* one target time of each speed category
PairTargetTimes == {HMS(2, 0, 0), HMS(3, 0, 0), HMS(4, 0, 0)}

PairDatePairs == {<<Date20240101, Date20240101 + 35>>,
                  <<Date20240101 + 1, Date20240101 + 29>>}

PairDaysInputs == {Some(MinTrainingDays), Some(MaxTrainingDays - 1)}

PairRequestBodies == Bodies(FitnessLevelEnum, PairTargetTimes, PairDatePairs, PairDaysInputs)

InitPair == InitOver({1, 2}, PairRequestBodies)

SpecPair == InitPair /\ [][NextDet]_vars

-----------------------------------------------------------------------------
(* The pipeline on every day count and on replies with long weeks *)

DaysDatePairs == {<<Date20240101, Date20240101 + 28>>,
                  <<Date20240101 + 2, Date20240101 + 30>>}

DaysRequestBodies ==
    Bodies({"intermediate"}, {HMS(2, 0, 0)}, DaysDatePairs,
           {Some(d) : d \in MinTrainingDays..MaxTrainingDays})

\* sessions in the longest week of a reply
MaxReplySessions == 15

\* a week entry with n sessions
LongWeek(vecka, n) == [vecka |-> vecka, traningspass |-> [k \in 1..n |-> SessionOk]]

\* the replies: a failed call, a plan with one week of 8 sessions, a plan with
\* a week of 7 and a week of 15 sessions
DaysChatResponses ==
    {[success |-> FALSE, error |-> "graph.invoke failed"]}
    \cup {[success |-> TRUE,
           response |-> [has_open |-> TRUE, has_close |-> TRUE,
                         json |-> Some([veckor |-> weeks])]] :
              weeks \in {<<LongWeek(1, 8)>>,
                         <<LongWeek(1, 7), LongWeek(2, MaxReplySessions)>>}}

InitDays == InitWith(DaysRequestBodies)

NextDays ==
    \E i \in Invocations :
        \/ ConstructRequest(i)
        \/ \E rr \in RaceResults, tr \in TrainingResults : GetRaceContext(i, rr, tr)
        \/ CreateTrainingPlanPrompt(i)
        \/ \E resp \in DaysChatResponses : GenerateAITrainingPlan(i, resp)
        \/ StructurePlanData(i)
        \/ Fallback(i)
        \/ EndpointRespond(i)

SpecDays == InitDays /\ [][NextDays]_vars

----------------------------------------------------------------------------
(* Properties *)

\* generate_plan of the orchestrator has finished for invocation i
Done(i) == pc[i] \in {"AISucceeded", "FallbackGenerated", "Failed"}

\* the (fitness level, days-per-week) pair of a request is a key of the
\* weekly-structure table
HasTemplate(req) ==
    /\ req.training_days_per_week # None
    /\ req.training_days_per_week[1] \in DOMAIN base_structures[req.fitness_level]

\* what TrainingPlanGenerator.generate_plan does for the request of invocation i
DetOutcome(i) == TrainingPlanGenerator_generate_plan(request[i])

\* the chat call of invocation i reported success = False
GenerationFailed(i) == response[i] # None /\ ~response[i][1].success

\* sum of the total_distance_km of weeks 1..n of a week sequence
RECURSIVE WeekTotal(_, _)
WeekTotal(weeks, n) ==
    IF n = 0 THEN 0 ELSE weeks[n].total_distance_km + WeekTotal(weeks, n - 1)

\* C1: for every valid request whose (fitness level, days-per-week) pair has a
\* weekly-structure template, the orchestrator's generate_plan returns a plan
\* whatever fails on the way; it raises only when the pair has no template.
C1_RaisesOnlyWithoutTemplate ==
    \A i \in Invocations :
        Done(i) /\ ~Returned(outcome[i]) => ~HasTemplate(request[i])

\* C2 as stated: when the generation-service call fails, the orchestrator
\* returns the plan the deterministic generator returns for the same request
\* and no exception reaches the caller.
C2_GenerationFailureReturnsDetPlan ==
    \A i \in Invocations :
        Done(i) /\ GenerationFailed(i) =>
            /\ Returned(outcome[i])
            /\ Returned(DetOutcome(i))
            /\ outcome[i].value = DetOutcome(i).value

\* C2 amended: when the generation-service call fails, the orchestrator ends as
\* the deterministic generator does for the same request: with the identical
\* plan when that generator returns one, with its exception when it raises.
C2_GenerationFailureEndsAsDet ==
    \A i \in Invocations :
        Done(i) /\ GenerationFailed(i) => outcome[i] = DetOutcome(i)

C2_Witness ==
    \E i \in Invocations :
        /\ pc[i] = "FallbackGenerated"
        /\ GenerationFailed(i)
        /\ Returned(outcome[i])
        /\ outcome[i].value.total_weeks = 20
        /\ request[i].training_days_per_week = Some(MaxTrainingDays)

\* C3 as stated: every returned plan, from the AI path or the deterministic
\* path, has 4 <= total_weeks <= 20.
C3_TotalWeeksWithinClamp ==
    \A i \in Invocations :
        Done(i) /\ Returned(outcome[i]) =>
            /\ 4 <= outcome[i].value.total_weeks
            /\ outcome[i].value.total_weeks <= 20

\* C3 amended: a plan produced by the deterministic generator has
\* 4 <= total_weeks <= 20; a plan mapped from the AI reply has as many weeks as
\* the reply lists, at least 1, whatever the requested count.
C3_TotalWeeksByPath ==
    \A i \in Invocations :
        Done(i) /\ Returned(outcome[i]) =>
            IF pc[i] = "AISucceeded"
            THEN /\ outcome[i].value.total_weeks = Len(ai_plan[i].value["veckor"])
                 /\ outcome[i].value.total_weeks >= 1
            ELSE /\ 4 <= outcome[i].value.total_weeks
                 /\ outcome[i].value.total_weeks <= 20

C3_Witness ==
    \E i \in Invocations :
        /\ pc[i] = "FallbackGenerated"
        /\ request[i].race_date - request[i].start_date < 28
        /\ outcome[i].value.total_weeks = 4

\* C4: in every returned plan, on both paths, total_distance_km is the rounded
\* sum of the weeks' total_distance_km.
C4_TotalDistanceIsSumOfWeeks ==
    \A i \in Invocations :
        Done(i) /\ Returned(outcome[i]) =>
            outcome[i].value.total_distance_km =
                WeekTotal(outcome[i].value.weeks, Len(outcome[i].value.weeks))

C4_Witness ==
    \E i \in Invocations :
        /\ pc[i] = "AISucceeded"
        /\ Len(outcome[i].value.weeks) = 2
        /\ outcome[i].value.weeks[1].total_distance_km = 10
        /\ outcome[i].value.weeks[2].total_distance_km = 5
        /\ outcome[i].value.total_distance_km = 15

\* C5: in every returned plan, on both paths, total_weeks is the number of
\* WeekPlan entries of the plan.
C5_TotalWeeksIsLength ==
    \A i \in Invocations :
        Done(i) /\ Returned(outcome[i]) =>
            outcome[i].value.total_weeks = Len(outcome[i].value.weeks)

C5_Witness ==
    \E i \in Invocations :
        /\ pc[i] = "AISucceeded"
        /\ Len(outcome[i].value.weeks) = 1
        /\ calculate_training_weeks(request[i].start_date, request[i].race_date) = 20

\* C6: in every plan of the deterministic generator every week has exactly
\* training_days_per_week sessions.
C6_SessionsPerWeek ==
    \A i \in Invocations :
        pc[i] = "DetReturned" =>
            \A w \in 1..Len(outcome[i].value.weeks) :
                Len(outcome[i].value.weeks[w].sessions)
                    = request[i].training_days_per_week[1]

C6_Witness ==
    \E i \in Invocations :
        /\ pc[i] = "DetReturned"
        /\ request[i].fitness_level = "beginner"
        /\ request[i].training_days_per_week = Some(5)
        /\ Len(outcome[i].value.weeks) = 12
        /\ Len(outcome[i].value.weeks[12].sessions) = 5

\* C7: the deterministic generator fails exactly when the (fitness level,
\* days-per-week) pair is absent from the weekly-structure table; among the
\* pairs with 3 to 7 days that is only (advanced, 3).
C7_FailsExactlyWithoutTemplate ==
    \A i \in Invocations :
        pc[i] \in {"DetReturned", "DetRaised"} =>
            /\ (pc[i] = "DetRaised") <=> ~HasTemplate(request[i])
            /\ request[i].training_days_per_week # None =>
                   (~HasTemplate(request[i]) <=>
                        /\ request[i].fitness_level = "advanced"
                        /\ request[i].training_days_per_week = Some(3))

\* C8: a response whose plan came from the deterministic fallback carries the
\* fallback-used marker, and a response without the marker came from the AI path.
C8_FallbackMarker ==
    \A i \in Invocations :
        Returned(http[i]) =>
            ("fallback_used" \in DOMAIN http[i].value) <=> (pc[i] # "AISucceeded")

\* some entry of the reply's week list of invocation i cannot be mapped
MappingFails(i) ==
    /\ Returned(ai_plan[i])
    /\ "veckor" \in DOMAIN ai_plan[i].value
    /\ \E k \in 1..Len(ai_plan[i].value["veckor"]) :
           ~Returned(structure_week(ai_plan[i].value["veckor"][k], request[i]))

\* C9: when mapping the AI reply fails at any week, every AI-derived week is
\* discarded and the orchestrator ends as the deterministic generator does for
\* the original request; a returned plan is either the week list mapped from
\* the reply or the deterministic plan, never a mixture.
C9_MappingFailureDiscardsAIWeeks ==
    \A i \in Invocations :
        /\ Done(i) /\ MappingFails(i) => outcome[i] = DetOutcome(i)
        /\ Done(i) /\ Returned(outcome[i]) =>
               \/ outcome[i] = DetOutcome(i)
               \/ /\ pc[i] = "AISucceeded"
                  /\ outcome[i].value.weeks =
                         [k \in 1..Len(ai_plan[i].value["veckor"]) |->
                             structure_week(ai_plan[i].value["veckor"][k],
                                            request[i]).value]

C9_Witness ==
    \E i \in Invocations :
        /\ pc[i] = "FallbackGenerated"
        /\ MappingFails(i)
        /\ Len(ai_plan[i].value["veckor"]) = 2
        /\ Returned(structure_week(ai_plan[i].value["veckor"][1], request[i]))
        /\ ~Returned(structure_week(ai_plan[i].value["veckor"][2], request[i]))
        /\ outcome[i] = DetOutcome(i)
        /\ outcome[i].value.total_weeks = 4

\* a knowledge-store query of invocation i raised
RetrievalFailed(i) ==
    /\ retrieved[i] # None
    /\ \/ ~Returned(retrieved[i][1][1])
       \/ ~Returned(retrieved[i][1][2])

\* the reply of invocation i decodes to a non-empty week list whose entries
\* all map to a WeekPlan
MapsToWeeks(i) ==
    /\ Returned(ai_plan[i])
    /\ "veckor" \in DOMAIN ai_plan[i].value
    /\ ai_plan[i].value["veckor"] # <<>>
    /\ \A k \in 1..Len(ai_plan[i].value["veckor"]) :
           Returned(structure_week(ai_plan[i].value["veckor"][k], request[i]))

\* C10: when a knowledge-store query fails, _get_race_context returns the
\* generic context string; the prompt is still built with it and the generation
\* service is still called, and a reply that maps to weeks is returned as the
\* AI plan: the retrieval failure alone does not force the fallback.
C10_RetrievalFailureDegrades ==
    \A i \in Invocations :
        RetrievalFailed(i) =>
            /\ race_context[i] = Some(GenericContext)
            /\ ai_prompt[i] # None => ai_prompt[i][1].race_context = GenericContext
            /\ Done(i) => gen_calls[i] = 1
            /\ Done(i) /\ MapsToWeeks(i) => pc[i] = "AISucceeded"

C10_Witness ==
    \E i \in Invocations :
        /\ RetrievalFailed(i)
        /\ pc[i] = "AISucceeded"
        /\ ai_prompt[i][1].race_context = GenericContext

\* the chat call of invocation i succeeded and its text is c
ReplyText(i, c) ==
    /\ response[i] # None
    /\ response[i][1].success
    /\ response[i][1].response = c

Undecodable(i) ==
    /\ response[i] # None
    /\ response[i][1].success
    /\ re_search_json(response[i][1].response)
    /\ response[i][1].response.json = None

\* the week list mapped from the reply of invocation i
MappedWeeks(i) ==
    [k \in 1..Len(ai_plan[i].value["veckor"]) |->
        structure_week(ai_plan[i].value["veckor"][k], request[i]).value]

StepsDone(i) ==
    <<race_context[i] # None, ai_prompt[i] # None, gen_calls[i] = 1,
      outcome[i] # Pending>>

\* C13: every run of the orchestrator passes through NotStarted,
\* ContextRetrieved, PromptBuilt, AIAttempted in that order and ends in one of
\* AISucceeded, FallbackGenerated, Failed; Failed is reached only when the
\* deterministic generator raises for an unsupported configuration (a pair
\* without template) during fallback, and FallbackGenerated is never entered
\* without the AI attempt having been made.
C13_StateMachine ==
    \A i \in Invocations :
        /\ pc[i] = "NotStarted" => StepsDone(i) = <<FALSE, FALSE, FALSE, FALSE>>
        /\ pc[i] = "ContextRetrieved" => StepsDone(i) = <<TRUE, FALSE, FALSE, FALSE>>
        /\ pc[i] = "PromptBuilt" => StepsDone(i) = <<TRUE, TRUE, FALSE, FALSE>>
        /\ pc[i] = "AIAttempted" => StepsDone(i) = <<TRUE, TRUE, TRUE, FALSE>>
        /\ Done(i) => StepsDone(i) = <<TRUE, TRUE, TRUE, TRUE>>
        /\ outcome[i] # Pending => Done(i)
        /\ pc[i] = "AISucceeded" => Returned(outcome[i])
        /\ pc[i] = "FallbackGenerated" =>
               /\ response[i] # None
               /\ outcome[i] = DetOutcome(i)
               /\ Returned(outcome[i])
        /\ pc[i] = "Failed" =>
               /\ outcome[i] = DetOutcome(i)
               /\ ~Returned(outcome[i])
               /\ ~HasTemplate(request[i])

\* the elements of a sequence
Range(seq) == {seq[k] : k \in 1..Len(seq)}

\* C14: within one invocation the generation service is never called before
\* context retrieval has finished, with the passages it found or with the
\* substitute context, and the prompt sent to the service contains the context
\* that retrieval returned.
C14_RetrievalBeforeGeneration ==
    \A i \in Invocations :
        /\ gen_calls[i] > 0 =>
               /\ store_calls[i] > 0
               /\ retrieved[i] # None
               /\ race_context[i] # None
               /\ ai_prompt[i] # None
        /\ race_context[i] # None =>
               IF RetrievalFailed(i)
               THEN race_context[i][1] = GenericContext
               ELSE \A q \in 1..2 :
                        Range(retrieved[i][1][q].value) \subseteq Range(race_context[i][1])
        /\ ai_prompt[i] # None =>
               /\ race_context[i] # None
               /\ ai_prompt[i][1].race_context = race_context[i][1]

C14_Witness ==
    \E i \in Invocations :
        /\ gen_calls[i] = 1
        /\ ~RetrievalFailed(i)
        /\ "race passage" \in Range(ai_prompt[i][1].race_context)
        /\ "training passage" \in Range(ai_prompt[i][1].race_context)

\* what generate_plan of the orchestrator gives for a request and a chat reply
\* when no other call is in flight
SoloOutcome(req, resp) ==
    LET ai == generate_ai_training_plan(resp)
        try == IF Returned(ai) THEN structure_plan_data(ai.value, req) ELSE ai
    IN IF Returned(try) THEN try ELSE TrainingPlanGenerator_generate_plan(req)

\* C15: in any interleaving of concurrent calls on the shared generators each
\* call ends as it does when run alone with the same request and the same
\* external replies; two calls with equal requests and replies end alike, and
\* a fallback result is the deterministic generator's result for the call's
\* own request.
C15_InterleavingIndependent ==
    \A i \in Invocations :
        /\ Done(i) => outcome[i] = SoloOutcome(request[i], response[i][1])
        /\ pc[i] \in {"FallbackGenerated", "Failed"} => outcome[i] = DetOutcome(i)
        /\ \A j \in Invocations :
               /\ Done(i) /\ Done(j)
               /\ request[i] = request[j]
               /\ response[i] = response[j]
               => outcome[i] = outcome[j]

C15_Witness ==
    /\ Invocations = {1, 2}
    /\ pc[1] = "Failed"
    /\ pc[2] = "AISucceeded"
    /\ request[1] # request[2]
    /\ http[1] = Pending
    /\ http[2] = Pending

\* b breaks a documented constraint of the request: race not after start, day
\* count outside 3..7, height, weight or age outside its range, or a target
\* time that is not three integers h:m:s with h in 0..23, m and s in 0..59
Malformed(b) ==
    \/ b["race_date"] <= b["start_date"]
    \/ /\ "training_days_per_week" \in DOMAIN b
       /\ b["training_days_per_week"] # None
       /\ b["training_days_per_week"][1] \notin 3..7
    \/ b["height_cm"] \notin 100..250
    \/ b["weight_kg"] \notin 30..200
    \/ b["age"] \notin 12..100
    \/ Len(b["target_time"]) # 3
    \/ \E k \in 1..Len(b["target_time"]) : b["target_time"][k] = None
    \/ LET t == b["target_time"]
       IN t[1][1] \notin 0..23 \/ t[2][1] \notin 0..59 \/ t[3][1] \notin 0..59

SingleMatchAt(d, a, p) ==
    /\ a < p /\ p < Len(d)
    /\ d[a] = "@"
    /\ \A k \in (a + 1)..(p - 1) : d[k] = " "
    /\ d[p] \in PaceTokens
    /\ d[p + 1] = "/km"

\* an "H:MM-H:MM/km" match of d starts at position k
RangeMatchAt(d, k) ==
    /\ k + 3 <= Len(d)
    /\ d[k] \in PaceTokens /\ d[k + 1] = "-"
    /\ d[k + 2] \in PaceTokens /\ d[k + 3] = "/km"

\* the description of the only session of the reply of invocation i
SessionDescription(i) == ai_plan[i].value["veckor"][1]["traningspass"][1]["pass"]

\* the pace of the only session of the plan returned for invocation i
SessionPace(i) == outcome[i].value.weeks[1].sessions[1].pace

\* C17: the pace extracted from "4 x 3 min uppfor @ 6:45-7:00/km, joggvila" is
\* "6:45-7:00"; in general the pace is the single pace of the first "@H:MM/km"
\* match if there is one, otherwise the range of the first "H:MM-H:MM/km"
\* match, otherwise none.
C17_ExtractPace ==
    \A i \in Invocations :
        pc[i] = "AISucceeded" =>
            LET d == SessionDescription(i)
                pos == 1..Len(d)
            IN /\ d = DescriptionUphill => SessionPace(i) = Some(<<"6:45", "-", "7:00">>)
               /\ \A a \in pos, p \in pos :
                      /\ SingleMatchAt(d, a, p)
                      /\ ~\E b \in 1..(a - 1), q \in pos : SingleMatchAt(d, b, q)
                      => SessionPace(i) = Some(<<d[p]>>)
               /\ \A k \in pos :
                      /\ ~\E a \in pos, p \in pos : SingleMatchAt(d, a, p)
                      /\ RangeMatchAt(d, k)
                      /\ ~\E j \in 1..(k - 1) : RangeMatchAt(d, j)
                      => SessionPace(i) = Some(<<d[k], "-", d[k + 2]>>)
               /\ /\ ~\E a \in pos, p \in pos : SingleMatchAt(d, a, p)
                  /\ ~\E k \in pos : RangeMatchAt(d, k)
                  => SessionPace(i) = None

C17_Witness ==
    \E i \in Invocations :
        /\ pc[i] = "AISucceeded"
        /\ SessionDescription(i) = DescriptionUphill
        /\ SessionPace(i) = Some(<<"6:45", "-", "7:00">>)

\* n is an integer nearest to num / den
Nearest(n, num, den) ==
    LET diff == den * n - num
    IN 2 * (IF diff < 0 THEN -diff ELSE diff) <= den

\* invocation i asks for the twelve weeks from 2024-01-01 to 2024-03-25 at
\* level intermediate with 4 days per week
TwelveWeekRequest(i) ==
    /\ request[i].start_date = Date20240101
    /\ request[i].race_date = Date20240101 + 84
    /\ request[i].fitness_level = "intermediate"
    /\ request[i].training_days_per_week = Some(4)

\* C18: for start 2024-01-01, race 2024-03-25, level intermediate and 4 days
\* per week the deterministic plan has exactly 12 weeks, the sessions of every
\* week are of types easy, tempo, interval, long in this order, week 1 has
\* distance round(base x (0.7 + 1/12)) and week 12 has distance round(0.6 x base).
C18_TwelveWeekExample ==
    \A i \in Invocations :
        pc[i] \in {"DetReturned", "DetRaised"} /\ TwelveWeekRequest(i) =>
            /\ pc[i] = "DetReturned"
            /\ LET plan == outcome[i].value
                   base == calculate_base_distance(request[i].fitness_level,
                                                   request[i].target_time)
               IN /\ plan.total_weeks = 12
                  /\ Len(plan.weeks) = 12
                  /\ \A w \in 1..12 :
                         [k \in 1..Len(plan.weeks[w].sessions) |->
                             plan.weeks[w].sessions[k].type]
                         = <<session_types.easy_run.name,
                             session_types.tempo_run.name,
                             session_types.interval_training.name,
                             session_types.long_run.name>>
                  /\ Nearest(plan.weeks[1].total_distance_km, base * (7 * 12 + 10), 120)
                  /\ Nearest(plan.weeks[12].total_distance_km, 6 * base, 10)

C18_Witness ==
    \E i \in Invocations :
        /\ pc[i] = "DetReturned"
        /\ TwelveWeekRequest(i)
        /\ request[i].target_time = HMS(2, 30, 0)
        /\ outcome[i].value.total_weeks = 12
        /\ outcome[i].value.weeks[1].total_distance_km = 35
        /\ outcome[i].value.weeks[12].total_distance_km = 27

\* C19: the periodization multiplier is continuous at both phase boundaries:
\* at progress 0.3 the base-building formula and the peak-phase formula give
\* 1.0, at progress 0.7 the peak-phase formula and the race-specific constant
\* give 1.0, so a week that lands exactly on a boundary has distance
\* round(base) = base, as has every week of the race-specific phase.
C19_ContinuousAtBoundaries ==
    \A i \in Invocations :
        pc[i] = "DetReturned" =>
            LET plan == outcome[i].value
                T == plan.total_weeks
                base == calculate_base_distance(request[i].fitness_level,
                                                request[i].target_time)
            IN \A w \in 1..T :
                   /\ 10 * w = 3 * T \/ 10 * w = 7 * T =>
                          /\ 1000000 + PeakSineMicro[<<w, T>>] = 1000000
                          /\ plan.weeks[w].total_distance_km = base
                   /\ 7 * T < 10 * w /\ 10 * w <= 9 * T =>
                          plan.weeks[w].total_distance_km = base

C19_Witness ==
    \E i \in Invocations :
        /\ pc[i] = "DetReturned"
        /\ outcome[i].value.total_weeks = 10
        /\ request[i].fitness_level = "advanced"
        /\ request[i].target_time = HMS(2, 29, 59)
        /\ outcome[i].value.weeks[3].total_distance_km = 70
        /\ outcome[i].value.weeks[5].total_distance_km = 91
        /\ outcome[i].value.weeks[7].total_distance_km = 70
        /\ outcome[i].value.weeks[8].total_distance_km = 70

\* floor(days / 7) clamped to [4, 20]
ClampedWeeks(days) ==
    IF days < 28 THEN 4
    ELSE IF days >= 140 THEN 20
    ELSE CHOOSE n \in 4..20 : 7 * n <= days /\ days < 7 * (n + 1)

\* C20: for every pair of dates with the race after the start the week count
\* of the deterministic generator is floor(days / 7) clamped to [4, 20] (4 below
\* 28 days, 20 from 140 days on, the number of whole weeks otherwise), and the
\* week count written into the prompt is the same number.
C20_WeekCount ==
    \A i \in Invocations :
        pc[i] \notin {"Received", "ValidationError"} =>
            LET days == request[i].race_date - request[i].start_date
            IN /\ days > 0
               /\ ai_prompt[i] # None =>
                      ai_prompt[i][1].training_weeks = ClampedWeeks(days)
               /\ pc[i] = "FallbackGenerated" =>
                      /\ outcome[i].value.total_weeks = ClampedWeeks(days)
                      /\ Len(outcome[i].value.weeks) = ClampedWeeks(days)
                      /\ outcome[i].value.total_weeks = ai_prompt[i][1].training_weeks

C20_Witness ==
    \E i \in Invocations :
        /\ pc[i] = "FallbackGenerated"
        /\ request[i].race_date - request[i].start_date = 139
        /\ ai_prompt[i][1].training_weeks = 19
        /\ outcome[i].value.total_weeks = 19

\* date.weekday(): Monday is 0, Sunday is 6 (ordinal 1 is a Monday)
Weekday(d) == (d + 6) % 7

\* C21: in every deterministic plan the sessions of a week with N sessions
\* fall on the weekdays named by the first N entries of the cycle Monday,
\* Wednesday, Friday, Saturday, Tuesday, Thursday, Sunday, in ascending date
\* order, for every start_date.
C21_SessionsOnPreferredWeekdays ==
    \A i \in Invocations :
        pc[i] = "DetReturned" =>
            \A w \in 1..Len(outcome[i].value.weeks) :
                LET sessions == outcome[i].value.weeks[w].sessions
                    N == Len(sessions)
                IN /\ {Weekday(sessions[k].date) : k \in 1..N}
                          = {preferred_days[k] : k \in 1..N}
                   /\ \A k \in 1..(N - 1) : sessions[k].date < sessions[k + 1].date

\* sum of distance_km over sessions 1..n of a session sequence, a session
\* without distance counting 0
RECURSIVE SessionTotal(_, _)
SessionTotal(sessions, n) ==
    IF n = 0 THEN 0
    ELSE (IF sessions[n].distance_km = None THEN 0 ELSE sessions[n].distance_km[1])
         + SessionTotal(sessions, n - 1)

\* C22: for every WeekPlan of every returned plan, on both paths, the week's
\* total_distance_km equals the sum of distance_km over that week's sessions.
C22_WeekTotalIsSumOfSessions ==
    \A i \in Invocations :
        Done(i) /\ Returned(outcome[i]) =>
            \A w \in 1..Len(outcome[i].value.weeks) :
                LET week == outcome[i].value.weeks[w]
                IN week.total_distance_km = SessionTotal(week.sessions, Len(week.sessions))

\* C23: in every returned plan, on both paths, the weeks carry the week
\* numbers 1..total_weeks in ascending order, each week starts at start_date +
\* 7 x (week_number - 1) days and ends 6 days later, so consecutive weeks are
\* contiguous and no two weeks overlap.
C23_WeeksNumberedAndContiguous ==
    \A i \in Invocations :
        Done(i) /\ Returned(outcome[i]) =>
            LET weeks == outcome[i].value.weeks
            IN /\ Len(weeks) = outcome[i].value.total_weeks
               /\ \A w \in 1..Len(weeks) :
                      /\ weeks[w].week_number = w
                      /\ weeks[w].start_date = request[i].start_date + 7 * (w - 1)
                      /\ weeks[w].end_date = weeks[w].start_date + 6
               /\ \A w \in 1..(Len(weeks) - 1) :
                      weeks[w + 1].start_date = weeks[w].end_date + 1

\* C23 as the code has it: in every returned plan each week starts at
\* start_date + 7 x (week_number - 1) days and ends 6 days later; the
\* deterministic plan numbers its weeks 1..total_weeks in order, so its weeks
\* are contiguous; a plan mapped from an AI reply carries the week numbers of
\* the reply ("vecka", at least 1) in the order of the reply, whatever they are.
C23_WeekDatesByPath ==
    \A i \in Invocations :
        Done(i) /\ Returned(outcome[i]) =>
            LET weeks == outcome[i].value.weeks
            IN /\ Len(weeks) = outcome[i].value.total_weeks
               /\ \A w \in 1..Len(weeks) :
                      /\ weeks[w].week_number >= 1
                      /\ weeks[w].start_date =
                             request[i].start_date + 7 * (weeks[w].week_number - 1)
                      /\ weeks[w].end_date = weeks[w].start_date + 6
               /\ pc[i] = "FallbackGenerated" =>
                      /\ \A w \in 1..Len(weeks) : weeks[w].week_number = w
                      /\ \A w \in 1..(Len(weeks) - 1) :
                             weeks[w + 1].start_date = weeks[w].end_date + 1
               /\ pc[i] = "AISucceeded" =>
                      /\ Len(weeks) = Len(ai_plan[i].value["veckor"])
                      /\ \A w \in 1..Len(weeks) :
                             weeks[w].week_number = ai_plan[i].value["veckor"][w]["vecka"]

C23_Witness ==
    \E i \in Invocations :
        /\ pc[i] = "AISucceeded"
        /\ outcome[i].value.total_weeks = 2
        /\ outcome[i].value.weeks[1].week_number = 2
        /\ outcome[i].value.weeks[2].week_number = 2
        /\ outcome[i].value.weeks[1].start_date = request[i].start_date + 7
        /\ outcome[i].value.weeks[2].start_date = request[i].start_date + 7

\* C24: the focus of week w of a T-week deterministic plan is base building
\* when w/T <= 0.3, strength and speed when 0.3 < w/T <= 0.7, race-specific
\* when 0.7 < w/T <= 0.9 and taper when w/T > 0.9, for every T in 4..20 and w
\* in 1..T, and the weekly volume follows the formula of the same phase:
\* round(base x (0.7 + w/T)), round(base x (1 + 0.3 sin(...))), base,
\* round(0.6 x base).
C24_FocusAndVolumeByProgress ==
    \A i \in Invocations :
        pc[i] = "DetReturned" =>
            LET plan == outcome[i].value
                T == plan.total_weeks
                base == calculate_base_distance(request[i].fitness_level,
                                                request[i].target_time)
            IN /\ T \in 4..20
               /\ \A w \in 1..T :
                      LET focus == plan.weeks[w].focus
                          km == plan.weeks[w].total_distance_km
                      IN /\ (focus = "Basbyggnad") <=> (10 * w <= 3 * T)
                         /\ (focus = "Styrka och fart") <=>
                                (3 * T < 10 * w /\ 10 * w <= 7 * T)
                         /\ (focus = "Tavlingsforberedelse") <=>
                                (7 * T < 10 * w /\ 10 * w <= 9 * T)
                         /\ (focus = "Avtrappning") <=> (9 * T < 10 * w)
                         /\ focus = "Basbyggnad" =>
                                Nearest(km, base * (7 * T + 10 * w), 10 * T)
                         /\ focus = "Styrka och fart" =>
                                Nearest(km, base * (1000000 + PeakSineMicro[<<w, T>>]),
                                        1000000)
                         /\ focus = "Tavlingsforberedelse" => km = base
                         /\ focus = "Avtrappning" => Nearest(km, 6 * base, 10)

C24_Witness ==
    \E i \in Invocations :
        /\ pc[i] = "DetReturned"
        /\ outcome[i].value.total_weeks = 20
        /\ outcome[i].value.weeks[6].focus = "Basbyggnad"
        /\ outcome[i].value.weeks[7].focus = "Styrka och fart"
        /\ outcome[i].value.weeks[14].focus = "Styrka och fart"
        /\ outcome[i].value.weeks[15].focus = "Tavlingsforberedelse"
        /\ outcome[i].value.weeks[18].focus = "Tavlingsforberedelse"
        /\ outcome[i].value.weeks[19].focus = "Avtrappning"

\* the session-type key whose display name is the type of a session
TypeKey(name) == CHOOSE key \in DOMAIN session_types : session_types[key].name = name

\* share of the weekly volume in percent, least and greatest km of a type
TypeShare(key) ==
    IF key = "long_run" THEN <<35, 8, 25>>
    ELSE IF key = "recovery_run" THEN <<10, 3, 8>>
    ELSE IF key = "tempo_run" THEN <<20, 4, 15>>
    ELSE <<15, 4, 15>>

\* C25: every session distance in a deterministic plan is an integer number
\* of km inside its type's range whatever the weekly volume (8..25 long run,
\* 3..8 recovery run, 4..15 every other type); it is the weekly volume times
\* the type's fraction (long 0.35, tempo 0.20, easy, interval, hill 0.15,
\* recovery 0.10), clamped to the range and then rounded.
C25_SessionDistanceInRange ==
    \A i \in Invocations :
        pc[i] = "DetReturned" =>
            \A w \in 1..Len(outcome[i].value.weeks) :
                LET week == outcome[i].value.weeks[w]
                IN \A k \in 1..Len(week.sessions) :
                       LET share == TypeShare(TypeKey(week.sessions[k].type))
                           km == week.sessions[k].distance_km
                           part == week.total_distance_km * share[1]
                           clamped == IF part < 100 * share[2] THEN 100 * share[2]
                                      ELSE IF part > 100 * share[3] THEN 100 * share[3]
                                      ELSE part
                       IN /\ km # None
                          /\ km[1] \in Int
                          /\ share[2] <= km[1] /\ km[1] <= share[3]
                          /\ Nearest(km[1], clamped, 100)

C25_Witness ==
    \E i \in Invocations :
        /\ pc[i] = "DetReturned"
        /\ \E w \in 1..Len(outcome[i].value.weeks) :
               LET week == outcome[i].value.weeks[w]
               IN /\ week.total_distance_km = 91
                  /\ \E k \in 1..Len(week.sessions) :
                         /\ week.sessions[k].type = session_types.long_run.name
                         /\ week.sessions[k].distance_km = Some(25)
                  /\ \E k \in 1..Len(week.sessions) :
                         /\ week.sessions[k].type = session_types.hill_training.name
                         /\ week.sessions[k].distance_km = Some(14)

\* the requests of calls i and j are equal in every field but target_time
DifferOnlyInTargetTime(i, j) ==
    /\ request[i].target_time # request[j].target_time
    /\ [request[i] EXCEPT !.target_time = request[j].target_time] = request[j]

\* C26: two valid requests that differ only in target_time yield deterministic
\* plans whose sessions have, position by position, the same type, date and
\* pace; the pace of a session depends only on its session type.
C26_PaceIgnoresTargetTime ==
    \A i, j \in Invocations :
        (/\ pc[i] = "DetReturned" /\ pc[j] = "DetReturned"
         /\ DifferOnlyInTargetTime(i, j)) =>
            LET wi == outcome[i].value.weeks
                wj == outcome[j].value.weeks
            IN /\ Len(wi) = Len(wj)
               /\ \A w \in 1..Len(wi) :
                      /\ Len(wi[w].sessions) = Len(wj[w].sessions)
                      /\ \A k \in 1..Len(wi[w].sessions) :
                             /\ wi[w].sessions[k].type = wj[w].sessions[k].type
                             /\ wi[w].sessions[k].date = wj[w].sessions[k].date
                             /\ wi[w].sessions[k].pace = wj[w].sessions[k].pace
                             /\ wi[w].sessions[k].pace =
                                    Some(calculate_pace(TypeKey(wi[w].sessions[k].type)))

C26_Witness ==
    /\ pc = [i \in {1, 2} |-> "DetReturned"]
    /\ DifferOnlyInTargetTime(1, 2)
    /\ request[1].target_time = HMS(2, 0, 0)
    /\ request[2].target_time = HMS(4, 0, 0)
    /\ request[1].fitness_level = "advanced"
    /\ outcome[1].value.weeks[3].total_distance_km # outcome[2].value.weeks[3].total_distance_km
    /\ outcome[1].value.weeks[3].sessions[1].distance_km
           # outcome[2].value.weeks[3].sessions[1].distance_km

\* C27: for every valid request, every session of the deterministic plan is
\* dated on or after start_date and strictly before race_date, and the last
\* week's end date is before race_date.
C27_PlanEndsBeforeRace ==
    \A i \in Invocations :
        pc[i] = "DetReturned" =>
            LET weeks == outcome[i].value.weeks
            IN /\ \A w \in 1..Len(weeks) :
                      \A k \in 1..Len(weeks[w].sessions) :
                          /\ request[i].start_date <= weeks[w].sessions[k].date
                          /\ weeks[w].sessions[k].date < request[i].race_date
               /\ weeks[Len(weeks)].end_date < request[i].race_date

\* position of a phase in the order base building, strength and speed,
\* race-specific, taper
PhaseRank(focus) ==
    IF focus = "Basbyggnad" THEN 1
    ELSE IF focus = "Styrka och fart" THEN 2
    ELSE IF focus = "Tavlingsforberedelse" THEN 3
    ELSE IF focus = "Avtrappning" THEN 4
    ELSE 0

\* C28: in every deterministic plan the phase never moves backwards from one
\* week to the next, week 1 is base building, the final week is taper, and
\* every taper week's distance is strictly smaller than every non-taper
\* week's distance of the same plan.
C28_PhasesInOrderTaperLowest ==
    \A i \in Invocations :
        pc[i] = "DetReturned" =>
            LET weeks == outcome[i].value.weeks
            IN /\ \A w \in 1..Len(weeks) : PhaseRank(weeks[w].focus) \in 1..4
               /\ \A w \in 1..(Len(weeks) - 1) :
                      PhaseRank(weeks[w].focus) <= PhaseRank(weeks[w + 1].focus)
               /\ PhaseRank(weeks[1].focus) = 1
               /\ PhaseRank(weeks[Len(weeks)].focus) = 4
               /\ \A t, n \in 1..Len(weeks) :
                      (PhaseRank(weeks[t].focus) = 4 /\ PhaseRank(weeks[n].focus) # 4)
                          => weeks[t].total_distance_km < weeks[n].total_distance_km

C28_Witness ==
    \E i \in Invocations :
        /\ pc[i] = "DetReturned"
        /\ Len(outcome[i].value.weeks) = 20
        /\ [w \in {1, 6, 7, 14, 15, 18, 19, 20} |->
                PhaseRank(outcome[i].value.weeks[w].focus)]
               = (1 :> 1 @@ 6 :> 1 @@ 7 :> 2 @@ 14 :> 2 @@ 15 :> 3 @@ 18 :> 3
                  @@ 19 :> 4 @@ 20 :> 4)
        /\ outcome[i].value.weeks[1].total_distance_km = 19
        /\ outcome[i].value.weeks[20].total_distance_km = 15

\* C29: within one call of AIEnhancedTrainingPlanGenerator.generate_plan the
\* generation service is invoked at most once (no retry) and the deterministic
\* generator is invoked at most once, on every outcome, an unstructured reply
\* combined with an unsupported configuration included.
C29_EachServiceAtMostOnce ==
    \A i \in Invocations : gen_calls[i] <= 1 /\ det_calls[i] <= 1

\* the dates of a week's sessions, in session order
SessionDates(week) == [k \in 1..Len(week.sessions) |-> week.sessions[k].date]

\* all dates of a week lie between its start_date and end_date inclusive
DatesInsideWeek(week) ==
    \A k \in 1..Len(week.sessions) :
        week.start_date <= week.sessions[k].date /\ week.sessions[k].date <= week.end_date

\* the weeks of the reply of call i
ReplyWeeks(i) == ai_plan[i].value["veckor"]

\* C30: in every week of a deterministic plan (3 to 7 sessions) the session
\* dates are pairwise distinct, strictly ascending in session order, and all
\* lie between the week's start_date and end_date inclusive; in a week mapped
\* from an AI reply with more than 7 sessions no error is raised and dates
\* repeat.
C30_DatesDistinctUpToSeven ==
    \A i \in Invocations :
        /\ pc[i] = "FallbackGenerated" =>
               \A w \in 1..Len(outcome[i].value.weeks) :
                   LET week == outcome[i].value.weeks[w]
                       dates == SessionDates(week)
                   IN /\ Len(dates) \in MinTrainingDays..MaxTrainingDays
                      /\ \A k \in 1..(Len(dates) - 1) : dates[k] < dates[k + 1]
                      /\ Cardinality(Range(dates)) = Len(dates)
                      /\ DatesInsideWeek(week)
        /\ (/\ Done(i)
            /\ Returned(ai_plan[i])
            /\ "veckor" \in DOMAIN ai_plan[i].value) =>
               /\ pc[i] = "AISucceeded"
               /\ Len(outcome[i].value.weeks) = Len(ReplyWeeks(i))
               /\ \A w \in 1..Len(ReplyWeeks(i)) :
                      LET week == outcome[i].value.weeks[w]
                          dates == SessionDates(week)
                      IN /\ Len(dates) = Len(ReplyWeeks(i)[w]["traningspass"])
                         /\ DatesInsideWeek(week)
                         /\ \A k \in 1..(Len(dates) - 1) : dates[k] <= dates[k + 1]
                         /\ Len(dates) > 7 =>
                                /\ \E k \in 1..(Len(dates) - 1) : dates[k] = dates[k + 1]
                                /\ Cardinality(Range(dates)) = 7

C30_Witness ==
    \E i \in Invocations :
        /\ pc[i] = "AISucceeded"
        /\ Len(outcome[i].value.weeks) = 2
        /\ SessionDates(outcome[i].value.weeks[1])
               = [k \in 1..7 |-> request[i].start_date + k - 1]
        /\ Len(outcome[i].value.weeks[2].sessions) = MaxReplySessions
        /\ \A k \in 1..3 :
               outcome[i].value.weeks[2].sessions[k].date = request[i].start_date + 7

====
